---- MODULE Spec2Model ----
(***************************************************************************)
(* Model of the SMART attribute decoding core of dswarbrick/smart:         *)
(*   - the drive model resolver (drivedb.LookupDrive and the two           *)
(*     historical lookupDrive revisions kept in smart.go), with Go's map   *)
(*     reference semantics made explicit through a heap of preset maps;    *)
(*   - the vendor-byte decoder (smartAttr.decodeVendorBytes) and the       *)
(*     raw-value column of printSMART;                                     *)
(*   - the report renderers that walk the attribute page: printSMART, the  *)
(*     loop at the end of the early ReadSMART, and printSMARTPage;         *)
(*   - the memory layout of the NVMe wire structures;                      *)
(*   - the device routines (SATDevice.PrintSMART, ReadSMART, GetPDList,    *)
(*     OpenDriveDb) as sequences of steps with their failure paths.        *)
(***************************************************************************)
EXTENDS Integers, Sequences, FiniteSets, TLC

VARIABLES
    impl,       \* which resolver revision the program was built with
    drives,     \* db.Drives as decoded from the database file (never reassigned)
    loaded,     \* contents of every preset map right after the load (history)
    heap,       \* current contents of the preset map object owned by drives[i]
    call,       \* per goroutine: the LookupDrive activation (locals and position)
    ncalls,     \* number of LookupDrive calls started so far
    crashed,    \* the process died (unrecovered panic or runtime fatal error)
    raceSeen,   \* a map write overlapped another call's access to the same map
    attr,       \* the smartAttr record under decode
    conv,       \* the conversion rule handed to decodeVendorBytes
    rawValue,   \* the uint64 rawValue, as 8 bytes, most significant first
    line,       \* the report line printSMART printed for the record
    op,         \* the decoder operation that produced conv/rawValue/line
    renderer,   \* which renderer walks the attribute page
    smart,      \* smart.Attrs: the 30 records of the page read from the device
    thisDrive,  \* thisDrive.Presets: the preset map of the resolved model
    pos,        \* index of the record the renderer's loop visits next
    report,     \* the attribute lines written so far, in output order
    rpc,        \* position of the renderer: "loop" or "done"
    arch,       \* GOARCH of the build, which fixes the alignment of uint64
    lay,        \* the struct being laid out: next field, offset, padding so far
    routine,    \* the device routine that runs
    arg,        \* its argument (the host number of GetPDList)
    dbfile,     \* state of the drive database file on disk
    pc,         \* index of the next step of the routine (0: it has returned)
    trace,      \* the steps executed so far, with their outcomes
    ret,        \* what the routine returned
    fd,         \* the descriptor field: "none", "open", "closed", "stdin", "invalid"
    closes,     \* number of close calls made on the descriptor
    fn,         \* the helper function or identify path under study
    input,      \* its input: a byte slice, a uint, or a log id and a buffer length
    buf,        \* identBuf.ModelNumber, the field the swap works on in place
    swaps,      \* number of swapBytes calls made on ModelNumber
    hpc,        \* position on the identify path
    output      \* what the function returned or did

resolverVars == <<impl, drives, loaded, heap, call, ncalls, crashed, raceSeen>>
decoderVars == <<attr, conv, rawValue, line, op>>
reportVars == <<renderer, smart, thisDrive, pos, report, rpc>>
layoutVars == <<arch, lay>>
deviceVars == <<routine, arg, dbfile, pc, trace, ret, fd, closes>>
helperVars == <<fn, input, buf, swaps, hpc, output>>
vars == <<impl, drives, loaded, heap, call, ncalls, crashed, raceSeen,
          attr, conv, rawValue, line, op,
          renderer, smart, thisDrive, pos, report, rpc,
          arch, lay, routine, arg, dbfile, pc, trace, ret, fd, closes,
          fn, input, buf, swaps, hpc, output>>

\* No attribute page is being rendered.
ReportIdle ==
    /\ renderer = "none"
    /\ smart = <<>>
    /\ thisDrive = <<>>
    /\ pos = 0
    /\ report = <<>>
    /\ rpc = "done"

\* No struct is being laid out.
LayoutIdle ==
    /\ arch = "amd64"
    /\ lay = [type |-> "none", next |-> 0, offset |-> 0, align |-> 1,
              padding |-> 0, size |-> 0]

\* No device routine runs.
DeviceIdle ==
    /\ routine = "none"
    /\ arg = 0
    /\ dbfile = "valid"
    /\ pc = 0
    /\ trace = <<>>
    /\ ret = [err |-> "", db |-> "none"]
    /\ fd = "none"
    /\ closes = 0

\* No helper function is applied.
HelperIdle ==
    /\ fn = "none"
    /\ input = <<>>
    /\ buf = <<>>
    /\ swaps = 0
    /\ hpc = "done"
    /\ output = <<>>

(***************************************************************************)
(* Bounds of the model.                                                    *)
(***************************************************************************)
MaxDrives == 3
MaxCalls == 2

Goroutines == {1, 2}

(***************************************************************************)
(* Drive database.                                                         *)
(***************************************************************************)
\* A nil Go map: the Presets field of an entry decoded without a presets key,
\* and of the zero-value DriveModel.
NilMap == 0

EmptyMap == [id \in {} |-> 0]

PlaceholderFamily == "$Id: drivedb.h 4394 2017-01-24 $"

Idents == {"FOO-1000", "BAR-1", "QUX"}

\* CompiledRegexp.Match(ident) for the model regexes of the modelled
\* databases: "^FOO" and "^BAR" are anchored prefixes, "-" (the regex the
\* shipped DEFAULT entry carries) matches any ident containing a dash.
RegexMatch(re, ident) ==
    CASE re = "^FOO" -> ident = "FOO-1000"
      [] re = "^BAR" -> ident = "BAR-1"
      [] re = "-"    -> ident \in {"FOO-1000", "BAR-1"}
      [] OTHER       -> FALSE

AttrConv(c, n) == [Conv |-> c, Name |-> n]

\* Preset tables as written in the database file; an entry without presets is
\* serialised without the key (omitempty) and decodes to a nil map.
DefaultFilePresets ==
    { EmptyMap,
      [id \in {"9"} |-> AttrConv("raw24(raw8)", "Power_On_Hours")],
      [id \in {"5", "9"} |-> IF id = "5"
                               THEN AttrConv("raw16(raw16)", "Reallocated_Sector_Ct")
                               ELSE AttrConv("raw24(raw8)", "Power_On_Hours")] }

FooFilePresets ==
    { EmptyMap,
      [id \in {"5"} |-> AttrConv("raw48", "Foo_Attr")],
      [id \in {"5"} |-> AttrConv("raw48", "")] }

BarFilePresets ==
    { EmptyMap,
      [id \in {"7"} |-> AttrConv("hex48", "Bar_Attr")] }

FileEntries ==
    {[Family |-> "DEFAULT", ModelRegex |-> "-", File |-> p] : p \in DefaultFilePresets}
    \cup {[Family |-> PlaceholderFamily, ModelRegex |-> "-", File |-> EmptyMap]}
    \cup {[Family |-> "Foo", ModelRegex |-> "^FOO", File |-> p] : p \in FooFilePresets}
    \cup {[Family |-> "Bar", ModelRegex |-> "^BAR", File |-> p] : p \in BarFilePresets}
    \cup {[Family |-> "Bar", ModelRegex |-> "-", File |-> p] :
              p \in BarFilePresets \ {EmptyMap}}

DbFiles == UNION {[1..n -> FileEntries] : n \in 1..MaxDrives}

\* OpenDriveDb: decode the file into db.Drives.  Every entry with a presets key
\* gets a map object of its own (identified by the entry's index); an entry
\* without one keeps the nil map.
DecodeDrives(file) ==
    [i \in 1..Len(file) |->
        [Family |-> file[i].Family,
         ModelRegex |-> file[i].ModelRegex,
         Presets |-> IF file[i].File = EmptyMap THEN NilMap ELSE i]]

DecodeHeap(file) == [i \in 1..Len(file) |-> file[i].File]

\* The zero-value DriveModel (var model DriveModel).
ZeroModel == [Family |-> "", ModelRegex |-> "", Presets |-> NilMap]

\* Contents of the map a Presets field refers to, in heap h.
PresetsOf(h, ref) == IF ref = NilMap THEN EmptyMap ELSE h[ref]

MapPut(m, id, v) == [k \in (DOMAIN m) \cup {id} |-> IF k = id THEN v ELSE m[k]]

(***************************************************************************)
(* Vendor-byte decoder and report line.                                    *)
(***************************************************************************)
\* A uint64 is kept as its eight bytes, most significant first, so that the
\* shifts keep their 64-bit width.
U64Zero == <<0, 0, 0, 0, 0, 0, 0, 0>>

\* r <<= 8 on a uint64: the top byte falls off.
Shl8(r) == <<r[2], r[3], r[4], r[5], r[6], r[7], r[8], 0>>

\* Bitwise or of two bytes.
RECURSIVE BitOr(_, _)
BitOr(a, b) ==
    IF a = 0 THEN b
    ELSE IF b = 0 THEN a
    ELSE 2 * BitOr(a \div 2, b \div 2) + (IF a % 2 = 1 \/ b % 2 = 1 THEN 1 ELSE 0)

\* r |= uint64(b)
OrByte(r, b) == [r EXCEPT ![8] = BitOr(r[8], b)]

\* The switch on conv of decodeVendorBytes: the byte-order template.
ByteOrder_WorstValueSwapped(c) ==
    IF c \in {"raw64", "hex64"} THEN <<"5", "4", "3", "2", "1", "0", "v", "w">>
    ELSE IF c \in {"raw56", "hex56", "raw24/raw32", "msec24hour32"}
    THEN <<"r", "5", "4", "3", "2", "1", "0">>
    ELSE <<"5", "4", "3", "2", "1", "0">>

ByteOrder_ReservedByDefault(c) ==
    IF c \in {"raw64", "hex64"} THEN <<"5", "4", "3", "2", "1", "0", "w", "v">>
    ELSE <<"r", "5", "4", "3", "2", "1", "0">>

ByteOrder(c) ==
    IF c \in {"raw64", "hex64"} THEN <<"5", "4", "3", "2", "1", "0", "w", "v">>
    ELSE IF c \in {"raw56", "hex56", "raw24/raw32", "msec24hour32"}
    THEN <<"r", "5", "4", "3", "2", "1", "0">>
    ELSE <<"5", "4", "3", "2", "1", "0">>

\* i - 48 for the template characters '0'..'5'.
DigitOf(ch) ==
    CASE ch = "0" -> 0 [] ch = "1" -> 1 [] ch = "2" -> 2
      [] ch = "3" -> 3 [] ch = "4" -> 4 [] ch = "5" -> 5

\* The inner switch of decodeVendorBytes: the byte a template character picks.
PickByte_IndexFromTop(sa, ch) ==
    IF ch \in {"0", "1", "2", "3", "4", "5"} THEN sa.VendorBytes[5 - DigitOf(ch)]
    ELSE IF ch = "r" THEN sa.Reserved
    ELSE IF ch = "v" THEN sa.Value
    ELSE IF ch = "w" THEN sa.Worst
    ELSE 0

PickByte(sa, ch) ==
    IF ch \in {"0", "1", "2", "3", "4", "5"} THEN sa.VendorBytes[DigitOf(ch)]
    ELSE IF ch = "r" THEN sa.Reserved
    ELSE IF ch = "v" THEN sa.Value
    ELSE IF ch = "w" THEN sa.Worst
    ELSE 0

\* for _, i := range byteOrder { r <<= 8; r |= uint64(b) }, from character k on.
RECURSIVE Assemble(_, _, _, _)
Assemble(sa, order, k, r) ==
    IF k > Len(order) THEN r
    ELSE Assemble(sa, order, k + 1, OrByte(Shl8(r), PickByte(sa, order[k])))

decodeVendorBytes(sa, c) == Assemble(sa, ByteOrder(c), 1, U64Zero)

\* Division of a uint64 by ten, byte by byte from the top: quotient and
\* remainder, as strconv's decimal formatting computes its digits.
RECURSIVE DivMod10(_, _, _, _)
DivMod10(r, k, rem, q) ==
    IF k > 8 THEN [q |-> q, rem |-> rem]
    ELSE LET cur == rem * 256 + r[k] IN
         DivMod10(r, k + 1, cur % 10, Append(q, cur \div 10))

DigitChar(d) ==
    CASE d = 0 -> "0" [] d = 1 -> "1" [] d = 2 -> "2" [] d = 3 -> "3"
      [] d = 4 -> "4" [] d = 5 -> "5" [] d = 6 -> "6" [] d = 7 -> "7"
      [] d = 8 -> "8" [] d = 9 -> "9"

\* %d of a uint64: its decimal digits, most significant first.
RECURSIVE FormatDecimal(_)
FormatDecimal(r) ==
    LET dm == DivMod10(r, 1, 0, <<>>) IN
    IF dm.q = U64Zero THEN <<DigitChar(dm.rem)>>
    ELSE Append(FormatDecimal(dm.q), DigitChar(dm.rem))

RECURSIVE Spaces(_)
Spaces(n) == IF n <= 0 THEN <<>> ELSE <<" ">> \o Spaces(n - 1)

\* %-12d: the decimal digits, left-justified in a field of twelve.
RawColumnWidth == 12

FormatRawColumn(r) ==
    LET d == FormatDecimal(r) IN d \o Spaces(RawColumnWidth - Len(d))

\* drive.Presets[strconv.Itoa(int(attr.Id))]: the preset found for the
\* record's id, or the zero attrConv with ok = false.
NoPreset == [ok |-> FALSE, Conv |-> "", Name |-> ""]

NoLine ==
    [Id |-> 0, Name |-> "", Flags |-> 0, Value |-> 0, Worst |-> 0,
     Reserved |-> 0, AttrType |-> "", AttrUpdated |-> "", RawValue |-> <<>>,
     Conv |-> ""]

\* rawValue of one iteration of printSMART's loop: decoded only when the id
\* has a preset.
LineRawValue_AlwaysDecoded(sa, preset) == decodeVendorBytes(sa, preset.Conv)

LineRawValue(sa, preset) ==
    IF preset.ok THEN decodeVendorBytes(sa, preset.Conv) ELSE U64Zero

\* Pre-fail / advisory bit: attr.Flags&0x0001 > 0
AttrType_TestsOnlineBit(flags) ==
    IF (flags \div 2) % 2 = 1 THEN "Pre-fail" ELSE "Old_age"

AttrType(flags) == IF flags % 2 = 1 THEN "Pre-fail" ELSE "Old_age"

\* Online data collection bit: attr.Flags&0x0002 > 0
AttrUpdated(flags) == IF (flags \div 2) % 2 = 1 THEN "Always" ELSE "Offline"

\* One iteration of printSMART's loop for a populated record: the columns of
\* the line it prints.
PrintedLine(sa, preset) ==
    [Id |-> sa.Id, Name |-> preset.Name, Flags |-> sa.Flags,
     Value |-> sa.Value, Worst |-> sa.Worst, Reserved |-> sa.Reserved,
     AttrType |-> AttrType(sa.Flags),
     AttrUpdated |-> AttrUpdated(sa.Flags),
     RawValue |-> FormatRawColumn(LineRawValue(sa, preset)),
     Conv |-> preset.Conv]

ZeroAttr ==
    [Id |-> 0, Flags |-> 0, Value |-> 0, Worst |-> 0,
     VendorBytes |-> [i \in 0..5 |-> 0], Reserved |-> 0]

\* Inputs of the decoder: sample bytes for the vendor bytes and for the
\* adjacent Value, Worst and Reserved bytes, and conversion rules of every
\* template class, the empty rule and a rule no table knows.
VendorByteSamples == {0, 1, 255}
AdjacentByteSamples == {0, 200}

AttrRecords ==
    [Id : {1}, Flags : {3}, Value : AdjacentByteSamples,
     Worst : AdjacentByteSamples,
     VendorBytes : [0..5 -> VendorByteSamples], Reserved : AdjacentByteSamples]

ConvSamples ==
    {"raw64", "hex64", "raw56", "hex56", "raw24/raw32", "msec24hour32",
     "raw48", "tempminmax", "", "bogus"}

PresetSamples ==
    {NoPreset} \cup {[ok |-> TRUE, Conv |-> c, Name |-> "Some_Attr"] : c \in ConvSamples}

\* attr.decodeVendorBytes(c) on a record not handled yet: the record is only
\* read.
Decode(c) ==
    /\ op = "none"
    /\ conv' = c
    /\ rawValue' = decodeVendorBytes(attr, c)
    /\ line' = NoLine
    /\ op' = "decode"
    /\ UNCHANGED attr

\* The body of printSMART's loop for the record, with the preset the resolved
\* model holds for its id.
PrintLine(preset) ==
    /\ op = "none"
    /\ attr.Id # 0
    /\ conv' = preset.Conv
    /\ rawValue' = LineRawValue(attr, preset)
    /\ line' = PrintedLine(attr, preset)
    /\ op' = "print"
    /\ UNCHANGED attr

(***************************************************************************)
(* Drive model resolver.                                                   *)
(***************************************************************************)
\* strings.HasPrefix(d.Family, "$Id")
IsPlaceholder_NeverSkipped(d) == FALSE

IsPlaceholder(d) == d.Family = PlaceholderFamily

\* d.Family == "DEFAULT"
IsDefault(d) == d.Family = "DEFAULT"

\* The for-loop of drivedb.LookupDrive (and of the first lookupDrive of
\* smart.go) from entry i on, up to the matching entry or the end of the
\* slice.  `at` is the index of the entry whose regex matched (0: none).
\* DEFAULT is copied into model itself: the copy shares DEFAULT's preset map.
RECURSIVE ScanIntoDefault(_, _, _)
ScanIntoDefault(i, model, ident) ==
    IF i > Len(drives)
    THEN [at |-> 0, model |-> model, src |-> NilMap, tgt |-> NilMap]
    ELSE LET d == drives[i] IN
         IF IsPlaceholder(d) THEN ScanIntoDefault(i + 1, model, ident)
         ELSE IF IsDefault(d) THEN ScanIntoDefault(i + 1, d, ident)
         ELSE IF RegexMatch(d.ModelRegex, ident)
         THEN [at |-> i,
               model |-> [model EXCEPT !.Family = d.Family,
                                       !.ModelRegex = d.ModelRegex],
               src |-> d.Presets,
               tgt |-> model.Presets]
         ELSE ScanIntoDefault(i + 1, model, ident)

\* The for-loop of the second lookupDrive of smart.go: DEFAULT is kept in
\* defaultModel, the matching entry is copied into model (sharing the entry's
\* preset map), and model is what is returned when nothing matched.
RECURSIVE ScanIntoResult(_, _, _)
ScanIntoResult(i, defaultModel, ident) ==
    IF i > Len(drives)
    THEN [at |-> 0, model |-> ZeroModel, src |-> NilMap, tgt |-> NilMap]
    ELSE LET d == drives[i] IN
         IF IsPlaceholder(d) THEN ScanIntoResult(i + 1, defaultModel, ident)
         ELSE IF IsDefault(d) THEN ScanIntoResult(i + 1, d, ident)
         ELSE IF RegexMatch(d.ModelRegex, ident)
         THEN [at |-> i, model |-> d,
               src |-> defaultModel.Presets, tgt |-> d.Presets]
         ELSE ScanIntoResult(i + 1, defaultModel, ident)

Scan(ident) ==
    IF impl = "intoDefault" THEN ScanIntoDefault(1, ZeroModel, ident)
    ELSE ScanIntoResult(1, ZeroModel, ident)

\* One iteration of `for id, p := range d.Presets` of drivedb.LookupDrive:
\* the new contents of the target map (model.Presets, i.e. DEFAULT's map).
MergeIterIntoDefault(h, src, tgt, id) ==
    LET p == h[src][id]
        m == PresetsOf(h, tgt)
        name == IF id \in DOMAIN m /\ p.Name = "" THEN m[id].Name ELSE p.Name
    IN  MapPut(m, id, AttrConv(p.Conv, name))

\* One iteration of `for id, p := range defaultModel.Presets` of the second
\* lookupDrive: the new contents of the target map (the matched entry's map).
MergeIterIntoResult(h, src, tgt, id) ==
    LET p == h[src][id]
        m == PresetsOf(h, tgt)
    IN  IF id \in DOMAIN m
        THEN IF m[id].Name = "" THEN MapPut(m, id, AttrConv(m[id].Conv, p.Name))
             ELSE m
        ELSE MapPut(m, id, p)

MergeIter(h, src, tgt, id) ==
    IF impl = "intoDefault" THEN MergeIterIntoDefault(h, src, tgt, id)
    ELSE MergeIterIntoResult(h, src, tgt, id)

\* Whether the iteration assigns to an entry of the target map.
MergeWrites(h, src, tgt, id) ==
    IF impl = "intoDefault" THEN TRUE
    ELSE LET m == PresetsOf(h, tgt)
         IN  IF id \in DOMAIN m THEN m[id].Name = "" ELSE TRUE

ZeroResult == [Family |-> "", ModelRegex |-> "", Presets |-> EmptyMap]

IdleCall ==
    [pc |-> "idle", ident |-> "", at |-> 0, model |-> ZeroModel,
     src |-> NilMap, tgt |-> NilMap, todo |-> {}, result |-> ZeroResult]

\* LookupDrive is entered with ident: the scan over db.Drives reads only the
\* slice and the entries' scalar fields, which nothing writes, so it is taken
\* in one step; the merge loop over the preset map follows, one iteration a
\* step (Go leaves the iteration order of a map unspecified).
Call(t, ident) ==
    /\ ~crashed
    /\ call[t].pc \in {"idle", "ret"}
    /\ ncalls < MaxCalls
    /\ LET s == Scan(ident) IN
       call' = [call EXCEPT ![t] =
                   [pc |-> "merge", ident |-> ident, at |-> s.at,
                    model |-> s.model, src |-> s.src, tgt |-> s.tgt,
                    todo |-> DOMAIN PresetsOf(heap, s.src),
                    result |-> ZeroResult]]
    /\ ncalls' = ncalls + 1
    /\ UNCHANGED <<impl, drives, loaded, heap, crashed, raceSeen>>

\* Another goroutine is inside its merge loop on the map this one assigns to.
\* A loop that ranges over a nil map makes no pass and touches no map.
Overlaps(t, ref) ==
    \E u \in Goroutines \ {t} :
        /\ call[u].pc = "merge"
        /\ call[u].src # NilMap
        /\ ref \in {call[u].src, call[u].tgt}

MergeStep(t) ==
    /\ ~crashed
    /\ call[t].pc = "merge"
    /\ \E id \in call[t].todo :
        LET c == call[t]
            w == MergeWrites(heap, c.src, c.tgt, id)
        IN  IF w /\ c.tgt = NilMap
            THEN \* panic: assignment to entry in nil map
                 /\ call' = [call EXCEPT ![t].pc = "panic"]
                 /\ crashed' = TRUE
                 /\ UNCHANGED <<heap, raceSeen>>
            ELSE \/ /\ heap' = [heap EXCEPT ![c.tgt] = MergeIter(heap, c.src, c.tgt, id)]
                    /\ call' = [call EXCEPT ![t].todo = c.todo \ {id}]
                    /\ raceSeen' = (raceSeen \/ (w /\ Overlaps(t, c.tgt)))
                    /\ UNCHANGED crashed
                 \/ \* unsynchronised map write: the runtime may abort with
                    \* "fatal error: concurrent map writes"
                    /\ w /\ Overlaps(t, c.tgt)
                    /\ call' = [call EXCEPT ![t].pc = "fatal"]
                    /\ crashed' = TRUE
                    /\ raceSeen' = TRUE
                    /\ UNCHANGED heap
    /\ UNCHANGED <<impl, drives, loaded, ncalls>>

\* return model: the caller receives the struct, whose Presets field still
\* refers to the shared map; result records what it sees at the return.
Return(t) ==
    /\ ~crashed
    /\ call[t].pc = "merge"
    /\ call[t].todo = {}
    /\ call' = [call EXCEPT ![t].pc = "ret",
                            ![t].result =
                                [Family |-> call[t].model.Family,
                                 ModelRegex |-> call[t].model.ModelRegex,
                                 Presets |-> PresetsOf(heap, call[t].model.Presets)]]
    /\ UNCHANGED <<impl, drives, loaded, heap, ncalls, crashed, raceSeen>>

(***************************************************************************)
(* Specification of the resolver: a database is loaded once, then the      *)
(* goroutines of the caller look devices up in it.                         *)
(***************************************************************************)
Init ==
    /\ impl \in {"intoDefault", "intoResult"}
    /\ \E file \in DbFiles :
        /\ drives = DecodeDrives(file)
        /\ loaded = DecodeHeap(file)
        /\ heap = DecodeHeap(file)
    /\ call = [t \in Goroutines |-> IdleCall]
    /\ ncalls = 0
    /\ crashed = FALSE
    /\ raceSeen = FALSE
    /\ attr = ZeroAttr
    /\ conv = ""
    /\ rawValue = U64Zero
    /\ line = NoLine
    /\ op = "none"
    /\ ReportIdle
    /\ LayoutIdle
    /\ DeviceIdle
    /\ HelperIdle

Next ==
    \/ \E t \in Goroutines, ident \in Idents :
          Call(t, ident) /\ UNCHANGED <<decoderVars, reportVars, layoutVars, deviceVars, helperVars>>
    \/ \E t \in Goroutines :
          MergeStep(t) /\ UNCHANGED <<decoderVars, reportVars, layoutVars, deviceVars, helperVars>>
    \/ \E t \in Goroutines :
          Return(t) /\ UNCHANGED <<decoderVars, reportVars, layoutVars, deviceVars, helperVars>>

Spec == Init /\ [][Next]_vars

(***************************************************************************)
(* Specification of the decoder: a record read from the attribute page is  *)
(* decoded, or printed as a report line, under any conversion rule.        *)
(***************************************************************************)
InitDecode ==
    /\ impl = "intoDefault"
    /\ drives = <<>>
    /\ loaded = <<>>
    /\ heap = <<>>
    /\ call = [t \in Goroutines |-> IdleCall]
    /\ ncalls = 0
    /\ crashed = FALSE
    /\ raceSeen = FALSE
    /\ attr \in AttrRecords
    /\ conv = ""
    /\ rawValue = U64Zero
    /\ line = NoLine
    /\ op = "none"
    /\ ReportIdle
    /\ LayoutIdle
    /\ DeviceIdle
    /\ HelperIdle

NextDecode ==
    \/ \E c \in ConvSamples :
          Decode(c) /\ UNCHANGED <<resolverVars, reportVars, layoutVars, deviceVars, helperVars>>
    \/ \E p \in PresetSamples :
          PrintLine(p) /\ UNCHANGED <<resolverVars, reportVars, layoutVars, deviceVars, helperVars>>

SpecDecode == InitDecode /\ [][NextDecode]_vars

(***************************************************************************)
(* Report renderers: the loop over the attribute page.                     *)
(***************************************************************************)
\* Attrs [30]smartAttr
NumAttrs == 30

\* strconv.Itoa of an attribute id.
RECURSIVE Itoa(_)
Itoa(n) == IF n < 10 THEN DigitChar(n) ELSE Itoa(n \div 10) \o DigitChar(n % 10)

\* conv, ok := drive.Presets[strconv.Itoa(int(attr.Id))]: a missing key (and
\* any key of a nil map) yields the zero attrConv and ok = false.
PresetLookup(presets, id) ==
    IF Itoa(id) \in DOMAIN presets
    THEN [ok |-> TRUE, Conv |-> presets[Itoa(id)].Conv, Name |-> presets[Itoa(id)].Name]
    ELSE NoPreset

\* The switch on attrconv.Conv in the loop of the early ReadSMART.
ReadSMARTRawValue_TempFromByteOne(sa, c) ==
    LET v == sa.VendorBytes IN
    CASE c = "raw24(raw8)" -> <<0, 0, 0, 0, 0, v[2], v[1], v[0]>>
      [] c = "raw48"       -> <<0, 0, v[5], v[4], v[3], v[2], v[1], v[0]>>
      [] c = "tempminmax"  -> <<0, 0, 0, 0, 0, 0, 0, v[1]>>
      [] OTHER             -> U64Zero

ReadSMARTRawValue(sa, c) ==
    LET v == sa.VendorBytes IN
    CASE c = "raw24(raw8)" -> <<0, 0, 0, 0, 0, v[2], v[1], v[0]>>
      [] c = "raw48"       -> <<0, 0, v[5], v[4], v[3], v[2], v[1], v[0]>>
      [] c = "tempminmax"  -> <<0, 0, 0, 0, 0, 0, 0, v[0]>>
      [] OTHER             -> U64Zero

\* The line the loop of the early ReadSMART prints: no TYPE and UPDATED
\* columns.
ReadSMARTLine(sa, preset) ==
    [Id |-> sa.Id, Name |-> preset.Name, Flags |-> sa.Flags,
     Value |-> sa.Value, Worst |-> sa.Worst, Reserved |-> sa.Reserved,
     AttrType |-> "", AttrUpdated |-> "",
     RawValue |-> FormatRawColumn(ReadSMARTRawValue(sa, preset.Conv)),
     Conv |-> preset.Conv]

\* The rules of the raw-value formatter's table.
FormatterTable ==
    {"raw8", "raw16", "raw48", "raw56", "raw64", "hex48", "hex56", "hex64",
     "raw16(raw16)", "raw16(avg16)", "raw24(raw8)", "raw24/raw24",
     "raw24/raw32", "min2hour", "sec2hour", "halfmin2hour", "msec24hour32",
     "tempminmax", "temp10x"}

HexChar(d) ==
    CASE d < 10 -> DigitChar(d)
      [] d = 10 -> "a" [] d = 11 -> "b" [] d = 12 -> "c"
      [] d = 13 -> "d" [] d = 14 -> "e" [] d = 15 -> "f"

\* The bytes of r from byte k on, two hex digits each.
RECURSIVE HexBytes(_, _)
HexBytes(r, k) ==
    IF k > 8 THEN <<>>
    ELSE <<HexChar(r[k] \div 16), HexChar(r[k] % 16)>> \o HexBytes(r, k + 1)

\* The decimal digits of a number below 2^16.
SmallDecimal(n) == FormatDecimal(<<0, 0, 0, 0, 0, 0, n \div 256, n % 256>>)

\* formatRawValue(v, conv), for the rules whose rendering is a plain number
\* or a list of numbers, and for every string outside the table.
formatRawValue_UnknownAsDecimal(v, c) ==
    CASE c \in {"raw48", "raw56", "raw64"} -> FormatDecimal(v)
      [] c = "hex48" -> <<"0", "x">> \o HexBytes(v, 3)
      [] c = "hex56" -> <<"0", "x">> \o HexBytes(v, 2)
      [] c = "hex64" -> <<"0", "x">> \o HexBytes(v, 1)
      [] c = "raw8" ->
            SmallDecimal(v[3]) \o <<" ">> \o SmallDecimal(v[4]) \o <<" ">>
            \o SmallDecimal(v[5]) \o <<" ">> \o SmallDecimal(v[6]) \o <<" ">>
            \o SmallDecimal(v[7]) \o <<" ">> \o SmallDecimal(v[8])
      [] c = "raw16" ->
            SmallDecimal(v[3] * 256 + v[4]) \o <<" ">>
            \o SmallDecimal(v[5] * 256 + v[6]) \o <<" ">>
            \o SmallDecimal(v[7] * 256 + v[8])
      [] c \notin FormatterTable -> FormatDecimal(v)

formatRawValue(v, c) ==
    CASE c \in {"raw48", "raw56", "raw64"} -> FormatDecimal(v)
      [] c = "hex48" -> <<"0", "x">> \o HexBytes(v, 3)
      [] c = "hex56" -> <<"0", "x">> \o HexBytes(v, 2)
      [] c = "hex64" -> <<"0", "x">> \o HexBytes(v, 1)
      [] c = "raw8" ->
            SmallDecimal(v[3]) \o <<" ">> \o SmallDecimal(v[4]) \o <<" ">>
            \o SmallDecimal(v[5]) \o <<" ">> \o SmallDecimal(v[6]) \o <<" ">>
            \o SmallDecimal(v[7]) \o <<" ">> \o SmallDecimal(v[8])
      [] c = "raw16" ->
            SmallDecimal(v[3] * 256 + v[4]) \o <<" ">>
            \o SmallDecimal(v[5] * 256 + v[6]) \o <<" ">>
            \o SmallDecimal(v[7] * 256 + v[8])
      [] c \notin FormatterTable -> <<"?">>

\* The line printSMARTPage prints: the record is decoded under the rule found
\* for its id (the zero rule when there is none) and the value is formatted
\* under the same rule.
PageLine(sa, preset) ==
    [Id |-> sa.Id, Name |-> preset.Name, Flags |-> sa.Flags,
     Value |-> sa.Value, Worst |-> sa.Worst, Reserved |-> sa.Reserved,
     AttrType |-> AttrType(sa.Flags),
     AttrUpdated |-> AttrUpdated(sa.Flags),
     RawValue |-> formatRawValue(decodeVendorBytes(sa, preset.Conv), preset.Conv),
     Conv |-> preset.Conv]

\* The body of the renderer's loop for a populated record.
LineOf(r, sa, presets) ==
    LET preset == PresetLookup(presets, sa.Id) IN
    CASE r = "printSMART"     -> PrintedLine(sa, preset)
      [] r = "ReadSMART"      -> ReadSMARTLine(sa, preset)
      [] r = "printSMARTPage" -> PageLine(sa, preset)

\* for _, attr := range smart.Attrs { if attr.Id == 0 { break } ... }: the
\* loop is over before record i.
LoopEnds_OnlyAfterLastRecord(attrs, i) == i > Len(attrs)

LoopEnds(attrs, i) == IF i > Len(attrs) THEN TRUE ELSE attrs[i].Id = 0

\* Pages read from a device.  The first n records are populated; record n+1,
\* when there is one, has Id 0; the records after it are zero, or stale
\* records with non-zero ids.  Ids and contents rotate through the samples.
IdSamples == <<1, 5, 9, 194, 7, 12>>

VB(b0, b1, b2, b3, b4, b5) ==
    [i \in 0..5 |-> CASE i = 0 -> b0 [] i = 1 -> b1 [] i = 2 -> b2
                      [] i = 3 -> b3 [] i = 4 -> b4 [] i = 5 -> b5]

RecordSamples ==
    << [Flags |-> 0, Value |-> 100, Worst |-> 100, Reserved |-> 0,
        VendorBytes |-> VB(1, 0, 0, 0, 0, 0)],
       [Flags |-> 1, Value |-> 200, Worst |-> 253, Reserved |-> 9,
        VendorBytes |-> VB(25, 0, 0, 0, 0, 0)],
       [Flags |-> 2, Value |-> 1, Worst |-> 1, Reserved |-> 7,
        VendorBytes |-> VB(255, 255, 255, 255, 255, 255)],
       [Flags |-> 3, Value |-> 99, Worst |-> 98, Reserved |-> 0,
        VendorBytes |-> VB(127, 0, 0, 0, 0, 0)],
       [Flags |-> 65532, Value |-> 64, Worst |-> 32, Reserved |-> 0,
        VendorBytes |-> VB(128, 0, 0, 0, 0, 0)],
       [Flags |-> 65533, Value |-> 255, Worst |-> 0, Reserved |-> 255,
        VendorBytes |-> VB(25, 0, 18, 0, 40, 0)],
       [Flags |-> 65534, Value |-> 0, Worst |-> 0, Reserved |-> 0,
        VendorBytes |-> VB(0, 0, 0, 0, 0, 0)],
       [Flags |-> 50, Value |-> 100, Worst |-> 100, Reserved |-> 0,
        VendorBytes |-> VB(42, 16, 0, 18, 0, 1)],
       [Flags |-> 65535, Value |-> 100, Worst |-> 90, Reserved |-> 1,
        VendorBytes |-> VB(0, 1, 0, 0, 0, 0)],
       [Flags |-> 51, Value |-> 100, Worst |-> 100, Reserved |-> 0,
        VendorBytes |-> VB(0, 0, 0, 0, 0, 0)],
       [Flags |-> 4, Value |-> 100, Worst |-> 100, Reserved |-> 0,
        VendorBytes |-> VB(0, 0, 0, 0, 0, 128)] >>

Seeds == 0..(Len(RecordSamples) - 1)

SampleRecord(k, seed) ==
    LET d == RecordSamples[((k + seed) % Len(RecordSamples)) + 1] IN
    [Id |-> IdSamples[(k % Len(IdSamples)) + 1], Flags |-> d.Flags,
     Value |-> d.Value, Worst |-> d.Worst, VendorBytes |-> d.VendorBytes,
     Reserved |-> d.Reserved]

SamplePage(n, stale, seed) ==
    [k \in 1..NumAttrs |->
        IF k <= n THEN SampleRecord(k, seed)
        ELSE IF k = n + 1 \/ ~stale THEN ZeroAttr
        ELSE SampleRecord(k, seed)]

\* Preset maps of resolved models: the zero-value model, and models whose
\* rules cover every template class, the empty rule and unknown rules.
PresetsOfRules(c1, c5, c9, c194, c7) ==
    [id \in {"1", "5", "9", "194", "7"} |->
        CASE id = "1"   -> AttrConv(c1, "Raw_Read_Error_Rate")
          [] id = "5"   -> AttrConv(c5, "Reallocated_Sector_Ct")
          [] id = "9"   -> AttrConv(c9, "Power_On_Hours")
          [] id = "194" -> AttrConv(c194, "Temperature_Celsius")
          [] id = "7"   -> AttrConv(c7, "")]

ReportPresetSamples ==
    { EmptyMap,
      PresetsOfRules("raw48", "raw16(raw16)", "raw24(raw8)", "tempminmax", "bogus"),
      PresetsOfRules("tempminmax", "raw64", "msec24hour32", "raw48", "") }

\* Models whose rules the formatter of printSMARTPage renders as plain
\* numbers, or does not know.
PagePresetSamples ==
    { EmptyMap,
      PresetsOfRules("raw48", "hex48", "raw8", "bogus", "raw64"),
      PresetsOfRules("RAW48", "raw16", "hex56", "raw56", "hex64") }

\* One iteration of the loop: the record is populated and its line is printed.
RenderLine ==
    /\ rpc = "loop"
    /\ ~LoopEnds(smart, pos)
    /\ report' = Append(report, LineOf(renderer, smart[pos], thisDrive))
    /\ pos' = pos + 1
    /\ UNCHANGED <<renderer, smart, thisDrive, rpc>>

\* The loop ends: at the first record with Id 0 (break), or after record 30.
RenderEnd ==
    /\ rpc = "loop"
    /\ LoopEnds(smart, pos)
    /\ rpc' = "done"
    /\ UNCHANGED <<renderer, smart, thisDrive, pos, report>>

\* The resolver and the single-record decoder are not running.
ResolverIdle ==
    /\ impl = "intoDefault"
    /\ drives = <<>>
    /\ loaded = <<>>
    /\ heap = <<>>
    /\ call = [t \in Goroutines |-> IdleCall]
    /\ ncalls = 0
    /\ crashed = FALSE
    /\ raceSeen = FALSE

DecoderIdle ==
    /\ attr = ZeroAttr
    /\ conv = ""
    /\ rawValue = U64Zero
    /\ line = NoLine
    /\ op = "none"

(***************************************************************************)
(* Specification of the report: a page read from the device is rendered    *)
(* with the presets of a resolved model.                                   *)
(***************************************************************************)
InitReport ==
    /\ ResolverIdle
    /\ DecoderIdle
    /\ LayoutIdle
    /\ DeviceIdle
    /\ HelperIdle
    /\ renderer \in {"printSMART", "ReadSMART", "printSMARTPage"}
    /\ \E n \in 0..NumAttrs, stale \in BOOLEAN, seed \in Seeds :
          smart = SamplePage(n, stale, seed)
    /\ thisDrive \in (IF renderer = "printSMARTPage"
                      THEN PagePresetSamples ELSE ReportPresetSamples)
    /\ pos = 1
    /\ report = <<>>
    /\ rpc = "loop"

NextReport ==
    \/ RenderLine /\ UNCHANGED <<resolverVars, decoderVars, layoutVars, deviceVars, helperVars>>
    \/ RenderEnd /\ UNCHANGED <<resolverVars, decoderVars, layoutVars, deviceVars, helperVars>>

SpecReport == InitReport /\ [][NextReport]_vars

(***************************************************************************)
(* Memory layout of the NVMe wire structures (unsafe.Sizeof).              *)
(***************************************************************************)
\* A struct field: its name, its element type and, for an array, its length.
F(n, t, c) == [name |-> n, type |-> t, count |-> c]

nvmePassthruCommand ==
    << F("opcode", "uint8", 1), F("flags", "uint8", 1),
       F("rsvd1", "uint16", 1), F("nsid", "uint32", 1),
       F("cdw2", "uint32", 1), F("cdw3", "uint32", 1),
       F("metadata", "uint64", 1), F("addr", "uint64", 1),
       F("metadata_len", "uint32", 1), F("data_len", "uint32", 1),
       F("cdw10", "uint32", 1), F("cdw11", "uint32", 1),
       F("cdw12", "uint32", 1), F("cdw13", "uint32", 1),
       F("cdw14", "uint32", 1), F("cdw15", "uint32", 1),
       F("timeout_ms", "uint32", 1), F("result", "uint32", 1) >>

nvmeIdentPowerState ==
    << F("MaxPower", "uint16", 1), F("Rsvd2", "uint8", 1),
       F("Flags", "uint8", 1), F("EntryLat", "uint32", 1),
       F("ExitLat", "uint32", 1), F("ReadTput", "uint8", 1),
       F("ReadLat", "uint8", 1), F("WriteTput", "uint8", 1),
       F("WriteLat", "uint8", 1), F("IdlePower", "uint16", 1),
       F("IdleScale", "uint8", 1), F("Rsvd19", "uint8", 1),
       F("ActivePower", "uint16", 1), F("ActiveWorkScale", "uint8", 1),
       F("Rsvd23", "uint8", 9) >>

nvmeIdentController ==
    << F("VendorID", "uint16", 1), F("Ssvid", "uint16", 1),
       F("SerialNumber", "uint8", 20), F("ModelNumber", "uint8", 40),
       F("Firmware", "uint8", 8), F("Rab", "uint8", 1),
       F("IEEE", "uint8", 3), F("Cmic", "uint8", 1),
       F("Mdts", "uint8", 1), F("Cntlid", "uint16", 1),
       F("Ver", "uint32", 1), F("Rtd3r", "uint32", 1),
       F("Rtd3e", "uint32", 1), F("Oaes", "uint32", 1),
       F("Rsvd96", "uint8", 160), F("Oacs", "uint16", 1),
       F("Acl", "uint8", 1), F("Aerl", "uint8", 1), F("Frmw", "uint8", 1),
       F("Lpa", "uint8", 1), F("Elpe", "uint8", 1), F("Npss", "uint8", 1),
       F("Avscc", "uint8", 1), F("Apsta", "uint8", 1),
       F("Wctemp", "uint16", 1), F("Cctemp", "uint16", 1),
       F("Mtfa", "uint16", 1), F("Hmpre", "uint32", 1),
       F("Hmmin", "uint32", 1), F("Tnvmcap", "uint8", 16),
       F("Unvmcap", "uint8", 16), F("Rpmbs", "uint32", 1),
       F("Rsvd316", "uint8", 196), F("Sqes", "uint8", 1),
       F("Cqes", "uint8", 1), F("Rsvd514", "uint8", 2),
       F("Nn", "uint32", 1), F("Oncs", "uint16", 1),
       F("Fuses", "uint16", 1), F("Fna", "uint8", 1),
       F("Vwc", "uint8", 1), F("Awun", "uint16", 1),
       F("Awupf", "uint16", 1), F("Nvscc", "uint8", 1),
       F("Rsvd531", "uint8", 1), F("Acwu", "uint16", 1),
       F("Rsvd534", "uint8", 2), F("Sgls", "uint32", 1),
       F("Rsvd540", "uint8", 1508), F("Psd", "nvmeIdentPowerState", 32),
       F("Vs", "uint8", 1024) >>

nvmeLBAF ==
    << F("Ms", "uint16", 1), F("Ds", "uint8", 1), F("Rp", "uint8", 1) >>

nvmeIdentNamespace ==
    << F("Nsze", "uint64", 1), F("Ncap", "uint64", 1),
       F("Nuse", "uint64", 1), F("Nsfeat", "uint8", 1),
       F("Nlbaf", "uint8", 1), F("Flbas", "uint8", 1),
       F("Mc", "uint8", 1), F("Dpc", "uint8", 1), F("Dps", "uint8", 1),
       F("Nmic", "uint8", 1), F("Rescap", "uint8", 1),
       F("Fpi", "uint8", 1), F("Rsvd33", "uint8", 1),
       F("Nawun", "uint16", 1), F("Nawupf", "uint16", 1),
       F("Nacwu", "uint16", 1), F("Nabsn", "uint16", 1),
       F("Nabo", "uint16", 1), F("Nabspf", "uint16", 1),
       F("Rsvd46", "uint8", 2), F("Nvmcap", "uint8", 16),
       F("Rsvd64", "uint8", 40), F("Nguid", "uint8", 16),
       F("EUI64", "uint8", 8), F("Lbaf", "nvmeLBAF", 16),
       F("Rsvd192", "uint8", 192), F("Vs", "uint8", 3712) >>

nvmeSMARTLog_TemperatureAsUint16 ==
    << F("CritWarning", "uint8", 1), F("Temperature", "uint16", 1),
       F("AvailSpare", "uint8", 1), F("SpareThresh", "uint8", 1),
       F("PercentUsed", "uint8", 1), F("Rsvd6", "uint8", 26),
       F("DataUnitsRead", "uint8", 16),
       F("DataUnitsWritten", "uint8", 16), F("HostReads", "uint8", 16),
       F("HostWrites", "uint8", 16), F("CtrlBusyTime", "uint8", 16),
       F("PowerCycles", "uint8", 16), F("PowerOnHours", "uint8", 16),
       F("UnsafeShutdowns", "uint8", 16), F("MediaErrors", "uint8", 16),
       F("NumErrLogEntries", "uint8", 16),
       F("WarningTempTime", "uint32", 1), F("CritCompTime", "uint32", 1),
       F("TempSensor", "uint16", 8), F("Rsvd216", "uint8", 296) >>

nvmeSMARTLog ==
    << F("CritWarning", "uint8", 1), F("Temperature", "uint8", 2),
       F("AvailSpare", "uint8", 1), F("SpareThresh", "uint8", 1),
       F("PercentUsed", "uint8", 1), F("Rsvd6", "uint8", 26),
       F("DataUnitsRead", "uint8", 16),
       F("DataUnitsWritten", "uint8", 16), F("HostReads", "uint8", 16),
       F("HostWrites", "uint8", 16), F("CtrlBusyTime", "uint8", 16),
       F("PowerCycles", "uint8", 16), F("PowerOnHours", "uint8", 16),
       F("UnsafeShutdowns", "uint8", 16), F("MediaErrors", "uint8", 16),
       F("NumErrLogEntries", "uint8", 16),
       F("WarningTempTime", "uint32", 1), F("CritCompTime", "uint32", 1),
       F("TempSensor", "uint16", 8), F("Rsvd216", "uint8", 296) >>

StructTypes ==
    {"nvmePassthruCommand", "nvmeIdentPowerState", "nvmeIdentController",
     "nvmeLBAF", "nvmeIdentNamespace", "nvmeSMARTLog"}

FieldsOf(t) ==
    CASE t = "nvmePassthruCommand" -> nvmePassthruCommand
      [] t = "nvmeIdentPowerState" -> nvmeIdentPowerState
      [] t = "nvmeIdentController" -> nvmeIdentController
      [] t = "nvmeLBAF"            -> nvmeLBAF
      [] t = "nvmeIdentNamespace"  -> nvmeIdentNamespace
      [] t = "nvmeSMARTLog"        -> nvmeSMARTLog

\* Architectures the package is built for: 64-bit words, or 32-bit words,
\* where the compiler aligns a uint64 field to 4 bytes.
Archs == {"amd64", "386"}

AlignUp(off, al) == ((off + al - 1) \div al) * al

Max(a, b) == IF a >= b THEN a ELSE b

RECURSIVE SizeOfType(_, _), AlignOfType(_, _), LayoutFrom(_, _, _, _)

\* One step of the compiler's layout: the field is placed at the next offset
\* that its alignment divides, and the struct takes the largest alignment.
PlaceField(st, f, a) ==
    LET al == AlignOfType(f.type, a)
        at == AlignUp(st.offset, al)
    IN  [st EXCEPT !.next = st.next + 1,
                   !.offset = at + SizeOfType(f.type, a) * f.count,
                   !.align = Max(st.align, al),
                   !.padding = st.padding + (at - st.offset)]

\* The end of the layout: the size is rounded up to the struct's alignment.
FinishStruct(st) ==
    LET sz == AlignUp(st.offset, st.align) IN
    [st EXCEPT !.next = 0, !.size = sz,
               !.padding = st.padding + (sz - st.offset)]

StartStruct(t) ==
    [type |-> t, next |-> 1, offset |-> 0, align |-> 1, padding |-> 0,
     size |-> 0]

LayoutFrom(st, fields, k, a) ==
    IF k > Len(fields) THEN FinishStruct(st)
    ELSE LayoutFrom(PlaceField(st, fields[k], a), fields, k + 1, a)

\* unsafe.Sizeof of a value of the type.
SizeOfType(t, a) ==
    CASE t = "uint8"  -> 1
      [] t = "uint16" -> 2
      [] t = "uint32" -> 4
      [] t = "uint64" -> 8
      [] OTHER -> LayoutFrom(StartStruct(t), FieldsOf(t), 1, a).size

\* unsafe.Alignof of a value of the type.
AlignOfType(t, a) ==
    CASE t = "uint8"  -> 1
      [] t = "uint16" -> 2
      [] t = "uint32" -> 4
      [] t = "uint64" -> IF a = "386" THEN 4 ELSE 8
      [] OTHER -> LayoutFrom(StartStruct(t), FieldsOf(t), 1, a).align

\* The compiler places the next field of the struct.
LayoutField ==
    /\ lay.next \in 1..Len(FieldsOf(lay.type))
    /\ lay' = PlaceField(lay, FieldsOf(lay.type)[lay.next], arch)
    /\ UNCHANGED arch

\* All fields are placed: the size of the struct is fixed.
LayoutEnd ==
    /\ lay.type # "none"
    /\ lay.next = Len(FieldsOf(lay.type)) + 1
    /\ lay' = FinishStruct(lay)
    /\ UNCHANGED arch

(***************************************************************************)
(* Specification of the layout: the compiler lays out one of the structs   *)
(* for one of the architectures.                                           *)
(***************************************************************************)
InitLayout ==
    /\ ResolverIdle
    /\ DecoderIdle
    /\ ReportIdle
    /\ DeviceIdle
    /\ HelperIdle
    /\ arch \in Archs
    /\ \E t \in StructTypes : lay = StartStruct(t)

NextLayout ==
    \/ LayoutField /\ UNCHANGED <<resolverVars, decoderVars, reportVars, deviceVars, helperVars>>
    \/ LayoutEnd /\ UNCHANGED <<resolverVars, decoderVars, reportVars, deviceVars, helperVars>>

SpecLayout == InitLayout /\ [][NextLayout]_vars

(***************************************************************************)
(* Device routines: the steps a routine takes, each with its outcomes.     *)
(***************************************************************************)
\* The routines, by revision: SATDevice.PrintSMART with the database passed
\* in and with the database loaded inside, ReadSMART of sat.go and of
\* smart.go, the two MegaRAID list queries, and the two database openers.
PrintSMARTRoutines == {"PrintSMART(db)", "PrintSMART()"}
ReadSMARTRoutines == {"ReadSMART sat.go", "ReadSMART smart.go"}
ListRoutines == {"GetPDList", "GetDeviceList"}
OpenerRoutines == {"drivedb.OpenDriveDb", "openDriveDb"}

\* OpenSCSIAutodetect, and scanDevices of smartctl with the CreateMegasasIoctl
\* call it makes.
AutodetectRoutines == {"OpenSCSIAutodetect"}
ScanRoutines == {"scanDevices"}

Routines ==
    PrintSMARTRoutines \cup ReadSMARTRoutines \cup ListRoutines \cup OpenerRoutines
        \cup AutodetectRoutines \cup ScanRoutines

\* The commands sent to the device.
DeviceCommands ==
    {"INQUIRY", "ATA IDENTIFY", "SMART READ DATA", "SMART READ LOG 0x00",
     "SMART READ LOG 0x01", "SMART READ LOG 0x06"}

\* The statements of a routine that act on the device, the database or the
\* output, in program order.
Program_DataBeforeLookup(r) ==
    CASE r = "PrintSMART(db)" ->
            <<"INQUIRY", "ATA IDENTIFY", "SMART READ DATA", "lookup", "render",
              "SMART READ LOG 0x00", "SMART READ LOG 0x01", "SMART READ LOG 0x06">>
      [] r = "PrintSMART()" ->
            <<"INQUIRY", "ATA IDENTIFY", "dbload", "SMART READ DATA", "lookup",
              "render", "SMART READ LOG 0x00", "SMART READ LOG 0x01",
              "SMART READ LOG 0x06">>
      [] r = "ReadSMART sat.go" ->
            <<"open", "INQUIRY", "ATA IDENTIFY", "dbload", "lookup",
              "SMART READ DATA", "render", "SMART READ LOG 0x00",
              "SMART READ LOG 0x01", "SMART READ LOG 0x06">>
      [] r = "ReadSMART smart.go" ->
            <<"open", "INQUIRY", "ATA IDENTIFY", "dbload", "lookup",
              "SMART READ DATA", "render">>
      [] r \in ListRoutines -> <<"MFI">>
      [] r \in OpenerRoutines -> <<"load">>
      [] r \in AutodetectRoutines -> <<"open", "INQUIRY">>
      [] r \in ScanRoutines -> <<"/proc/devices", "node", "ScanDevices", "Close">>

Program(r) ==
    CASE r = "PrintSMART(db)" ->
            <<"INQUIRY", "ATA IDENTIFY", "lookup", "SMART READ DATA", "render",
              "SMART READ LOG 0x00", "SMART READ LOG 0x01", "SMART READ LOG 0x06">>
      [] r = "PrintSMART()" ->
            <<"INQUIRY", "ATA IDENTIFY", "dbload", "lookup", "SMART READ DATA",
              "render", "SMART READ LOG 0x00", "SMART READ LOG 0x01",
              "SMART READ LOG 0x06">>
      [] r = "ReadSMART sat.go" ->
            <<"open", "INQUIRY", "ATA IDENTIFY", "dbload", "lookup",
              "SMART READ DATA", "render", "SMART READ LOG 0x00",
              "SMART READ LOG 0x01", "SMART READ LOG 0x06">>
      [] r = "ReadSMART smart.go" ->
            <<"open", "INQUIRY", "ATA IDENTIFY", "dbload", "lookup",
              "SMART READ DATA", "render">>
      [] r \in ListRoutines -> <<"MFI">>
      [] r \in OpenerRoutines -> <<"load">>
      [] r \in AutodetectRoutines -> <<"open", "INQUIRY">>
      [] r \in ScanRoutines -> <<"/proc/devices", "node", "ScanDevices", "Close">>

\* The statement the routine executes next ("return" after the last one).
NextStep ==
    IF pc = 0 THEN "none"
    ELSE IF pc > Len(Program(routine)) THEN "return"
    ELSE Program(routine)[pc]

Done(step, ok) == [step |-> step, ok |-> ok, host_no |-> 0]

Running == [err |-> "", db |-> "none"]

\* defer dev.close(): the close calls made when the routine is left, be it by
\* a return or by a panic.  ReadSMART defers the close once the device is
\* open; PrintSMART does not own the descriptor.
RunDeferred_OnlyOnSuccess(r, f, e) ==
    IF r \in ReadSMARTRoutines /\ f = "open" /\ e = "nil" THEN 1 ELSE 0

RunDeferred(r, f, e) ==
    IF r \in ReadSMARTRoutines /\ f = "open" THEN 1 ELSE 0

\* The routine is left with error e (or "nil").
Leave(e) ==
    /\ ret' = [err |-> e, db |-> "none"]
    /\ pc' = 0
    /\ closes' = closes + RunDeferred(routine, fd, e)
    /\ fd' = IF RunDeferred(routine, fd, e) > 0 THEN "closed" ELSE fd

\* dev, err := openDevice(device) / err := dev.open()
OpenDevice(ok) ==
    /\ NextStep = "open"
    /\ trace' = Append(trace, Done("open", ok))
    /\ IF ok
       THEN /\ fd' = "open"
            /\ pc' = pc + 1
            /\ UNCHANGED <<ret, closes>>
       ELSE Leave("Cannot open device")
    /\ UNCHANGED <<routine, arg, dbfile>>

\* One command is sent to the device (execGenericIO / SendCDB): it succeeds,
\* or it fails and the routine returns the error.
IssueCommand(ok) ==
    /\ NextStep \in DeviceCommands
    /\ trace' = Append(trace, Done(NextStep, ok))
    /\ IF ok
       THEN /\ pc' = pc + 1
            /\ UNCHANGED <<ret, fd, closes>>
       ELSE Leave(NextStep)
    /\ UNCHANGED <<routine, arg, dbfile>>

\* drivedb.OpenDriveDb: a file that cannot be opened yields the zero DriveDb
\* and a nil error; a file that cannot be decoded yields the decoder's error.
OpenDriveDb(file) ==
    CASE file = "missing"   -> [err |-> "nil", db |-> "zero"]
      [] file = "malformed" -> [err |-> "decode", db |-> "partial"]
      [] file = "valid"     -> [err |-> "nil", db |-> "decoded"]

\* openDriveDb of smart.go: toml.DecodeFile fails on a file that cannot be
\* opened and on one that cannot be decoded.
openDriveDb(file) ==
    CASE file = "missing"   -> [err |-> "Cannot open / parse drive DB", db |-> "zero"]
      [] file = "malformed" -> [err |-> "Cannot open / parse drive DB", db |-> "partial"]
      [] file = "valid"     -> [err |-> "nil", db |-> "decoded"]

\* db, err := openDriveDb("drivedb.toml"); if err != nil { return err }
DbLoad ==
    /\ NextStep = "dbload"
    /\ LET r == openDriveDb(dbfile) IN
       /\ trace' = Append(trace, Done("dbload", r.err = "nil"))
       /\ IF r.err = "nil"
          THEN /\ pc' = pc + 1
               /\ UNCHANGED <<ret, fd, closes>>
          ELSE Leave(r.err)
    /\ UNCHANGED <<routine, arg, dbfile>>

\* thisDrive := db.lookupDrive(...): the lookup returns a model, or panics
\* on a write to a nil preset map and unwinds the routine.
Lookup(panics) ==
    /\ NextStep = "lookup"
    /\ trace' = Append(trace, Done("lookup", ~panics))
    /\ IF panics
       THEN Leave("panic")
       ELSE /\ pc' = pc + 1
            /\ UNCHANGED <<ret, fd, closes>>
    /\ UNCHANGED <<routine, arg, dbfile>>

\* printSMART(smart, thisDrive) / printSMARTPage(smart, thisDrive)
Render ==
    /\ NextStep = "render"
    /\ trace' = Append(trace, Done("render", TRUE))
    /\ pc' = pc + 1
    /\ UNCHANGED <<routine, arg, dbfile, ret, fd, closes>>

\* return nil
ReturnNil ==
    /\ NextStep = "return"
    /\ Leave("nil")
    /\ UNCHANGED <<routine, arg, dbfile, trace>>

\* The host number GetPDList and GetDeviceList hand to MFI.
HostPassed(host) == 0

\* MFI: ioc := megasas_iocpacket{host_no: host}
MFI(host) == [step |-> "MFI", ok |-> TRUE, host_no |-> host]

\* GetPDList(host) / GetDeviceList(host): one MFI command; its error, or the
\* device list read from the response, is returned.
GetPDList(ok) ==
    /\ NextStep = "MFI"
    /\ trace' = Append(trace, [MFI(HostPassed(arg)) EXCEPT !.ok = ok])
    /\ Leave(IF ok THEN "nil" ELSE "MFI")
    /\ UNCHANGED <<routine, arg, dbfile>>

\* OpenDriveDb(dbfile) / openDriveDb(dbfile), called on its own.
OpenDb ==
    /\ NextStep = "load"
    /\ LET r == IF routine = "drivedb.OpenDriveDb"
                THEN OpenDriveDb(dbfile) ELSE openDriveDb(dbfile) IN
       /\ trace' = Append(trace, Done("load", r.err = "nil"))
       /\ ret' = r
    /\ pc' = 0
    /\ UNCHANGED <<routine, arg, dbfile, fd, closes>>

\* CreateMegasasIoctl, first part: /proc/devices is read for the major number
\* of megaraid_sas_ioctl.  The file cannot be opened (the error is returned),
\* or it has no such line (DeviceMajor stays 0: the handle is returned with a
\* nil error), or the major number is found and the node is created.  The
\* caller goes on only when the error is nil.
ReadProcDevices(outcome) ==
    CASE outcome = "unreadable" -> [err |-> "open /proc/devices", next |-> 0]
      [] outcome = "no major"   -> [err |-> "nil", next |-> 3]
      [] outcome = "major"      -> [err |-> "", next |-> 2]

ProcDevices(outcome) ==
    /\ NextStep = "/proc/devices"
    /\ LET r == ReadProcDevices(outcome) IN
       /\ trace' = Append(trace, Done("/proc/devices", outcome = "major"))
       /\ ret' = [err |-> r.err, db |-> "none"]
       /\ pc' = r.next
    /\ UNCHANGED <<routine, arg, dbfile, fd, closes>>

\* CreateMegasasIoctl, second part: m.fd, err = unix.Open(node); the handle is
\* returned with the error, or with nil.
OpenNode(ok) ==
    /\ NextStep = "node"
    /\ trace' = Append(trace, Done("node", ok))
    /\ fd' = IF ok THEN "open" ELSE "invalid"
    /\ ret' = [err |-> IF ok THEN "nil" ELSE "open node", db |-> "none"]
    /\ pc' = IF ok THEN pc + 1 ELSE 0
    /\ UNCHANGED <<routine, arg, dbfile, closes>>

\* Most megaraid hosts ScanHosts finds in sysfs.
MaxHosts == 2

\* scanDevices, err == nil: m.ScanDevices() calls GetPDList for every megaraid
\* host found in sysfs, one MFI ioctl on m.fd each.  outcomes[k] tells whether
\* the driver accepts the k-th command; an ioctl on a descriptor that is not
\* the node fails.  GetPDList logs a failure and ScanDevices goes on with the
\* next host.
ScanDevices(outcomes) ==
    /\ NextStep = "ScanDevices"
    /\ trace' = trace \o [k \in 1..Len(outcomes) |->
                              Done("ioctl", fd = "open" /\ outcomes[k])]
    /\ pc' = pc + 1
    /\ UNCHANGED <<routine, arg, dbfile, ret, fd, closes>>

\* scanDevices, defer m.Close(): unix.Close(m.fd).  A handle whose fd field
\* was never assigned holds 0, the standard input of the process.
CloseHandle ==
    /\ NextStep = "Close"
    /\ trace' = Append(trace, Done("Close", TRUE))
    /\ fd' = IF fd = "stdin" THEN "stdin closed" ELSE "closed"
    /\ closes' = closes + 1
    /\ pc' = 0
    /\ UNCHANGED <<routine, arg, dbfile, ret>>

\* Host numbers of the MegaRAID adapters of a system.
Hosts == 0..3

(***************************************************************************)
(* Specification of the device routines: one routine is called and runs    *)
(* to its return, every command and file access succeeding or failing.     *)
(***************************************************************************)
InitDevice ==
    /\ ResolverIdle
    /\ DecoderIdle
    /\ ReportIdle
    /\ LayoutIdle
    /\ HelperIdle
    /\ routine \in Routines
    /\ arg \in (IF routine \in ListRoutines THEN Hosts ELSE {0})
    /\ dbfile \in {"missing", "malformed", "valid"}
    /\ pc = 1
    /\ trace = <<>>
    /\ ret = Running
    /\ fd = (IF routine \in PrintSMARTRoutines THEN "open"
             ELSE IF routine \in ScanRoutines THEN "stdin" ELSE "none")
    /\ closes = 0

NextDevice ==
    \/ \E ok \in BOOLEAN :
          OpenDevice(ok) /\ UNCHANGED <<resolverVars, decoderVars, reportVars, layoutVars, helperVars>>
    \/ \E ok \in BOOLEAN :
          IssueCommand(ok) /\ UNCHANGED <<resolverVars, decoderVars, reportVars, layoutVars, helperVars>>
    \/ DbLoad /\ UNCHANGED <<resolverVars, decoderVars, reportVars, layoutVars, helperVars>>
    \/ \E panics \in BOOLEAN :
          Lookup(panics) /\ UNCHANGED <<resolverVars, decoderVars, reportVars, layoutVars, helperVars>>
    \/ Render /\ UNCHANGED <<resolverVars, decoderVars, reportVars, layoutVars, helperVars>>
    \/ ReturnNil /\ UNCHANGED <<resolverVars, decoderVars, reportVars, layoutVars, helperVars>>
    \/ \E ok \in BOOLEAN :
          GetPDList(ok) /\ UNCHANGED <<resolverVars, decoderVars, reportVars, layoutVars, helperVars>>
    \/ OpenDb /\ UNCHANGED <<resolverVars, decoderVars, reportVars, layoutVars, helperVars>>
    \/ \E outcome \in {"unreadable", "no major", "major"} :
          ProcDevices(outcome) /\ UNCHANGED <<resolverVars, decoderVars, reportVars, layoutVars, helperVars>>
    \/ \E ok \in BOOLEAN :
          OpenNode(ok) /\ UNCHANGED <<resolverVars, decoderVars, reportVars, layoutVars, helperVars>>
    \/ \E outcomes \in UNION {[1..n -> BOOLEAN] : n \in 0..MaxHosts} :
          ScanDevices(outcomes) /\ UNCHANGED <<resolverVars, decoderVars, reportVars, layoutVars, helperVars>>
    \/ CloseHandle /\ UNCHANGED <<resolverVars, decoderVars, reportVars, layoutVars, helperVars>>

SpecDevice == InitDevice /\ [][NextDevice]_vars

(***************************************************************************)
(* Helper functions: swapBytes, bitLen and log2b, the NVMe log page        *)
(* command, and the path of the IDENTIFY model number to the drive lookup. *)
(***************************************************************************)
\* Longest byte slice handed to swapBytes.
MaxSliceLen == 4

\* The bytes the sample slices are made of: 'A', 'B' and ' '.
SampleBytes == {65, 66, 32}

Slices == UNION {[1..n -> SampleBytes] : n \in 0..MaxSliceLen}

\* for i := 0; i < len(s); i += 2 { s[i], s[i+1] = s[i+1], s[i] }
\* with i counted from 1.  An index past the end of the slice panics (index
\* out of range); the pairs swapped before stay swapped, the slice being
\* modified in place.
RECURSIVE SwapFrom(_, _)
SwapFrom(s, i) ==
    IF i > Len(s) THEN [s |-> s, panic |-> FALSE]
    ELSE IF i + 1 > Len(s) THEN [s |-> s, panic |-> TRUE]
    ELSE SwapFrom([s EXCEPT ![i] = s[i + 1], ![i + 1] = s[i]], i + 2)

swapBytes(s) == SwapFrom(s, 1)

\* A uint below 2^32 is the pair <<high 16 bits, low 16 bits>>.
Limb16Samples ==
    {0} \cup {2^k : k \in 0..15} \cup {2^k - 1 : k \in 1..16}
        \cup {2^k + 1 : k \in 1..15}

UintSamples == {<<h, l>> : h \in Limb16Samples, l \in {0, 1, 32767, 32768, 65535}}

\* for ; x >= 0x8000; x >>= 16 { n += 16 }
RECURSIVE BitLenLoop(_, _)
BitLenLoop(x, n) ==
    IF x[1] > 0 \/ x[2] >= 32768
    THEN BitLenLoop(<<0, x[1]>>, n + 16)
    ELSE [x |-> x[2], n |-> n]

\* if x >= c { x >>= k; n += k }
BitLenStep(st, c, k) ==
    IF st.x >= c THEN [x |-> st.x \div (2^k), n |-> st.n + k] ELSE st

\* bitLen of bitops.go
bitLen(x) ==
    LET a == BitLenLoop(x, 0)
        b == BitLenStep(a, 128, 8)
        c == BitLenStep(b, 8, 4)
        d == BitLenStep(c, 2, 2)
    IN  IF d.x >= 1 THEN d.n + 1 ELSE d.n

\* log2b of bitops.go: return bitLen(x) - 1, in uint arithmetic (0 - 1 wraps
\* to the largest uint).
log2b_OneBased(x) == bitLen(x)

log2b(x) == IF bitLen(x) = 0 THEN "MaxUint" ELSE bitLen(x) - 1

\* bits.Len of the standard library: the least n with x < 2^n.
Len16(v) == CHOOSE n \in 0..16 : v < 2^n /\ (n > 0 => v >= 2^(n - 1))

BitsLen(x) == IF x[1] > 0 THEN 16 + Len16(x[1]) ELSE Len16(x[2])

\* log2b built on math/bits: return bits.Len(x) - 1
log2bBits(x) == BitsLen(x) - 1

\* utils.Log2b: 0 for x = 0, else bits.Len(x) - 1
Log2b(x) == IF x = <<0, 0>> THEN 0 ELSE BitsLen(x) - 1

\* cdw10: uint32(logID) | (((uint32(bufLen) / 4) - 1) << 16)
Cdw10_ShiftBy8(logID, bufLen) == BitOr(logID, ((bufLen \div 4) - 1) * 256)

Cdw10(logID, bufLen) == BitOr(logID, ((bufLen \div 4) - 1) * 65536)

\* readLogPage / readNVMeLogPage: the length check, then one admin command
\* whose outcome is the result.
readLogPage(logID, bufLen, ok) ==
    IF bufLen < 4 \/ bufLen > 16384 \/ bufLen % 4 # 0
    THEN [err |-> "Invalid buffer size", ioctls |-> 0, data_len |-> 0, cdw10 |-> 0]
    ELSE [err |-> IF ok THEN "nil" ELSE "ioctl", ioctls |-> 1,
          data_len |-> bufLen, cdw10 |-> Cdw10(logID, bufLen)]

LogPageSamples ==
    {[logID |-> l, bufLen |-> n] :
        l \in {0, 1, 2, 255},
        n \in {0, 1, 3, 4, 5, 6, 8, 512, 4096, 16380, 16382, 16384, 16385,
               16388, 32768}}

\* The two ways the model number reaches the lookup: ReadSMART of sat.go
\* swaps inside the Printf call, SATDevice.PrintSMART gets it from identify().
IdentifyPaths == {"ReadSMART sat.go", "PrintSMART()"}

\* Raw model-number fields as the device sends them (whole words).
WireModelNumbers == {s \in Slices : Len(s) > 0 /\ Len(s) % 2 = 0}

\* The number of swapBytes calls a statement of a path makes on ModelNumber.
SwapsIn_PrintAlwaysSwaps(path, stmt) ==
    IF stmt = "print" \/ (path = "PrintSMART()" /\ stmt = "identify") THEN 1 ELSE 0

SwapsIn(path, stmt) ==
    IF \/ path = "PrintSMART()" /\ stmt = "identify"
       \/ path = "ReadSMART sat.go" /\ stmt = "print"
    THEN 1 ELSE 0

\* The field after a statement that calls swapBytes on it n times (0 or 1).
Swapped(s, n) == IF n = 0 THEN s ELSE swapBytes(s).s

\* swapBytes(s) / utils.SwapBytes(s)
ApplySwapBytes ==
    /\ fn = "swapBytes"
    /\ hpc = "call"
    /\ output' = swapBytes(input)
    /\ hpc' = "done"
    /\ UNCHANGED <<fn, input, buf, swaps>>

\* bitLen(x) and the three log2b functions on the same x
ApplyLog2b ==
    /\ fn = "log2b"
    /\ hpc = "call"
    /\ output' = [bitLen |-> bitLen(input), log2b |-> log2b(input),
                  log2bBits |-> log2bBits(input), Log2b |-> Log2b(input)]
    /\ hpc' = "done"
    /\ UNCHANGED <<fn, input, buf, swaps>>

\* readLogPage(logID, &buf)
ApplyReadLogPage(ok) ==
    /\ fn = "readLogPage"
    /\ hpc = "call"
    /\ output' = readLogPage(input.logID, input.bufLen, ok)
    /\ hpc' = "done"
    /\ UNCHANGED <<fn, input, buf, swaps>>

\* ATA IDENTIFY: the device fills identBuf, or the command fails and the
\* routine returns.  identify() swaps the three strings before it returns.
Identify(ok) ==
    /\ fn \in IdentifyPaths
    /\ hpc = "identify"
    /\ IF ok
       THEN /\ buf' = Swapped(input, SwapsIn(fn, "identify"))
            /\ swaps' = swaps + SwapsIn(fn, "identify")
            /\ hpc' = "print"
            /\ UNCHANGED output
       ELSE /\ output' = [err |-> "SgExecute ATA IDENTIFY", looked |-> FALSE, subject |-> <<>>]
            /\ hpc' = "done"
            /\ UNCHANGED <<buf, swaps>>
    /\ UNCHANGED <<fn, input>>

\* fmt.Printf("Model Number: %s\n", ...)
PrintIdent ==
    /\ fn \in IdentifyPaths
    /\ hpc = "print"
    /\ buf' = Swapped(buf, SwapsIn(fn, "print"))
    /\ swaps' = swaps + SwapsIn(fn, "print")
    /\ hpc' = "dbload"
    /\ UNCHANGED <<fn, input, output>>

\* db, err := openDriveDb("drivedb.toml"); if err != nil { return err }
LoadDriveDb(ok) ==
    /\ fn \in IdentifyPaths
    /\ hpc = "dbload"
    /\ IF ok
       THEN /\ hpc' = "lookup"
            /\ UNCHANGED output
       ELSE /\ output' = [err |-> "Cannot open / parse drive DB", looked |-> FALSE,
                          subject |-> <<>>]
            /\ hpc' = "done"
    /\ UNCHANGED <<fn, input, buf, swaps>>

\* thisDrive := db.lookupDrive(identBuf.ModelNumber[:])
LookupSubject ==
    /\ fn \in IdentifyPaths
    /\ hpc = "lookup"
    /\ output' = [err |-> "nil", looked |-> TRUE, subject |-> buf]
    /\ hpc' = "done"
    /\ UNCHANGED <<fn, input, buf, swaps>>

(***************************************************************************)
(* Specification of the helpers: one function is applied to one input, or  *)
(* one identify path runs from the IDENTIFY command to the lookup.         *)
(***************************************************************************)
InitHelpers ==
    /\ ResolverIdle
    /\ DecoderIdle
    /\ ReportIdle
    /\ LayoutIdle
    /\ DeviceIdle
    /\ fn \in {"swapBytes", "log2b", "readLogPage"} \cup IdentifyPaths
    /\ input \in (CASE fn = "swapBytes" -> Slices
                    [] fn = "log2b" -> UintSamples
                    [] fn = "readLogPage" -> LogPageSamples
                    [] fn \in IdentifyPaths -> WireModelNumbers)
    /\ buf = <<>>
    /\ swaps = 0
    /\ hpc = (IF fn \in IdentifyPaths THEN "identify" ELSE "call")
    /\ output = <<>>

NextHelpers ==
    \/ ApplySwapBytes /\ UNCHANGED <<resolverVars, decoderVars, reportVars, layoutVars, deviceVars>>
    \/ ApplyLog2b /\ UNCHANGED <<resolverVars, decoderVars, reportVars, layoutVars, deviceVars>>
    \/ \E ok \in BOOLEAN :
          ApplyReadLogPage(ok) /\ UNCHANGED <<resolverVars, decoderVars, reportVars, layoutVars, deviceVars>>
    \/ \E ok \in BOOLEAN :
          Identify(ok) /\ UNCHANGED <<resolverVars, decoderVars, reportVars, layoutVars, deviceVars>>
    \/ PrintIdent /\ UNCHANGED <<resolverVars, decoderVars, reportVars, layoutVars, deviceVars>>
    \/ \E ok \in BOOLEAN :
          LoadDriveDb(ok) /\ UNCHANGED <<resolverVars, decoderVars, reportVars, layoutVars, deviceVars>>
    \/ LookupSubject /\ UNCHANGED <<resolverVars, decoderVars, reportVars, layoutVars, deviceVars>>

SpecHelpers == InitHelpers /\ [][NextHelpers]_vars

(***************************************************************************)
(* Vocabulary of the resolver's properties, stated on the database as it   *)
(* was loaded.                                                             *)
(***************************************************************************)
\* Entries that are neither placeholders nor DEFAULT and whose regex matches.
MatchingEntries(ident) ==
    {i \in 1..Len(drives) :
        /\ drives[i].Family # PlaceholderFamily
        /\ drives[i].Family # "DEFAULT"
        /\ RegexMatch(drives[i].ModelRegex, ident)}

Least(S) == CHOOSE i \in S : \A j \in S : i <= j
Greatest(S) == CHOOSE i \in S : \A j \in S : j <= i

\* Index of the first matching entry in file order (0: no entry matches).
FirstMatchAt(ident) ==
    IF MatchingEntries(ident) = {} THEN 0 ELSE Least(MatchingEntries(ident))

\* DEFAULT entries the iteration meets before it stops at entry e (or before
\* the end of the database when e = 0).
DefaultsBefore(e) ==
    {j \in 1..Len(drives) : drives[j].Family = "DEFAULT" /\ (e = 0 \/ j < e)}

\* Family-specific presets E laid over the DEFAULT presets D.
MergedPresets(E, D) ==
    [id \in (DOMAIN E) \cup (DOMAIN D) |->
        IF id \in DOMAIN E
        THEN AttrConv(E[id].Conv,
                      IF E[id].Name = "" /\ id \in DOMAIN D
                      THEN D[id].Name ELSE E[id].Name)
        ELSE D[id]]

\* The call of goroutine t has ended, by a return or by a panic of its own.
Ended(t) == call[t].pc \in {"ret", "panic"}

\* What LookupDrive(ident) yields on a freshly loaded copy of the database,
\* run on its own: the scan, then the merge loop to its end.
RECURSIVE RunMerge(_, _, _)
RunMerge(h, s, todo) ==
    IF todo = {}
    THEN [kind |-> "ret", Family |-> s.model.Family,
          ModelRegex |-> s.model.ModelRegex,
          Presets |-> PresetsOf(h, s.model.Presets)]
    ELSE LET id == CHOOSE x \in todo : TRUE IN
         IF MergeWrites(h, s.src, s.tgt, id) /\ s.tgt = NilMap
         THEN [kind |-> "panic", Family |-> "", ModelRegex |-> "",
               Presets |-> EmptyMap]
         ELSE RunMerge([h EXCEPT ![s.tgt] = MergeIter(h, s.src, s.tgt, id)],
                       s, todo \ {id})

LookupAlone(ident) ==
    LET s == Scan(ident) IN RunMerge(loaded, s, DOMAIN PresetsOf(loaded, s.src))

Returned(t, r) ==
    /\ call[t].pc = "ret"
    /\ r.kind = "ret"
    /\ call[t].result.Family = r.Family
    /\ call[t].result.ModelRegex = r.ModelRegex
    /\ call[t].result.Presets = r.Presets

(***************************************************************************)
(* Claims about the resolver.                                              *)
(***************************************************************************)
\* C1: whenever a DEFAULT entry precedes the first matching entry E, the call
\* returns a model with E's family whose preset map is exactly E's presets
\* laid over DEFAULT's (E's conversion rules kept, an empty name of E filled
\* from DEFAULT when DEFAULT defines the id, DEFAULT-only ids inherited, no
\* other ids).
C1_MergeResult ==
    \A t \in Goroutines :
        LET e == FirstMatchAt(call[t].ident) IN
        (Ended(t) /\ e # 0 /\ DefaultsBefore(e) # {}) =>
            /\ call[t].pc = "ret"
            /\ call[t].result.Family = drives[e].Family
            /\ call[t].result.Presets =
                   MergedPresets(loaded[e], loaded[Greatest(DefaultsBefore(e))])

\* C2: the resolver never mutates the database: every entry's preset map has
\* at all times the contents it had when the database was loaded.
C2_DatabaseNeverMutated == heap = loaded

\* C3: lookup results do not depend on the call history: a call made after
\* other calls on the same database returns the model a freshly loaded copy
\* of the database returns for the same ident.
C3_HistoryIndependent ==
    \A t \in Goroutines :
        (call[t].pc = "ret" /\ \A u \in Goroutines \ {t} : call[u].pc = "idle")
            => Returned(t, LookupAlone(call[t].ident))

\* C4: concurrent lookups on a shared database write nothing reachable from
\* it, so no map write overlaps another call's access to the same map, no
\* call is aborted, and each call returns what it returns when run alone.
C4_ConcurrentLookupsRaceFree ==
    /\ ~raceSeen
    /\ \A t \in Goroutines : call[t].pc # "fatal"
    /\ \A t \in Goroutines :
          (call[t].pc = "ret" /\ \A u \in Goroutines : call[u].pc = "ret")
              => Returned(t, LookupAlone(call[t].ident))

\* C5: when no entry matches, the call returns the last DEFAULT entry
\* unmerged (family DEFAULT, exactly DEFAULT's presets), or the zero-value
\* model when the database has no DEFAULT; it never fails.
C5_NoMatchFallsBackToDefault ==
    \A t \in Goroutines :
        (Ended(t) /\ FirstMatchAt(call[t].ident) = 0) =>
            /\ call[t].pc = "ret"
            /\ IF DefaultsBefore(0) = {}
               THEN call[t].result = ZeroResult
               ELSE LET d == Greatest(DefaultsBefore(0)) IN
                    /\ call[t].result.Family = "DEFAULT"
                    /\ call[t].result.Presets = loaded[d]

\* C6: first match wins in file order: once the scan of a call is over, the
\* entry it stopped at is the earliest entry that is neither a placeholder
\* nor DEFAULT and whose regex matches (so placeholders and DEFAULT are never
\* regex-matched, DEFAULT does not stop the iteration and no later entry is
\* visited), and the family of the model is that entry's family.
C6_FirstMatchWins ==
    \A t \in Goroutines :
        LET e == FirstMatchAt(call[t].ident) IN
        (call[t].pc # "idle") =>
            /\ call[t].at = e
            /\ e # 0 => call[t].model.Family = drives[e].Family
            /\ e = 0 => call[t].model.Family \in {"", "DEFAULT"}
            /\ (call[t].pc = "ret" /\ e # 0) =>
                   call[t].result.Family = drives[e].Family

\* A call returned the family of an entry that a matching DEFAULT regex
\* precedes and another matching entry follows.
C6_Witness ==
    \E t \in Goroutines :
        LET e == call[t].at IN
        /\ call[t].pc = "ret"
        /\ e # 0
        /\ \E j \in 1..(e - 1) :
              /\ drives[j].Family \in {"DEFAULT", PlaceholderFamily}
              /\ RegexMatch(drives[j].ModelRegex, call[t].ident)
        /\ \E k \in (e + 1)..Len(drives) : k \in MatchingEntries(call[t].ident)
        /\ call[t].result.Family = drives[e].Family

\* C7: when no DEFAULT entry precedes the first matching entry, the call
\* completes normally and returns the matching entry with exactly its own
\* presets, whether that entry has presets or not.
C7_MissingDefaultTolerated ==
    \A t \in Goroutines :
        LET e == FirstMatchAt(call[t].ident) IN
        (Ended(t) /\ e # 0 /\ DefaultsBefore(e) = {}) =>
            /\ call[t].pc = "ret"
            /\ call[t].result.Family = drives[e].Family
            /\ call[t].result.Presets = loaded[e]

(***************************************************************************)
(* Claims about the vendor-byte decoder.                                   *)
(***************************************************************************)
\* The bytes of the record a conversion rule's template names, most
\* significant first, zero-extended to the eight bytes of a uint64.
TemplateBytes(sa, c) ==
    LET v == sa.VendorBytes IN
    IF c \in {"raw64", "hex64"}
    THEN <<v[5], v[4], v[3], v[2], v[1], v[0], sa.Worst, sa.Value>>
    ELSE IF c \in {"raw56", "hex56", "raw24/raw32", "msec24hour32"}
    THEN <<0, sa.Reserved, v[5], v[4], v[3], v[2], v[1], v[0]>>
    ELSE <<0, 0, v[5], v[4], v[3], v[2], v[1], v[0]>>

\* Records that differ from sa at most in fields the template of c leaves out.
OutsideVariants(sa, c) ==
    LET usesVW == c \in {"raw64", "hex64"}
        usesR == c \in {"raw56", "hex56", "raw24/raw32", "msec24hour32"}
    IN  {[sa EXCEPT !.Id = i, !.Flags = f,
                    !.Value = IF usesVW THEN sa.Value ELSE b,
                    !.Worst = IF usesVW THEN sa.Worst ELSE w,
                    !.Reserved = IF usesR THEN sa.Reserved ELSE r] :
            i \in {1, 255}, f \in {0, 65535}, b \in {0, 255}, w \in {0, 255},
            r \in {0, 255}}

\* C8: decodeVendorBytes returns the bytes of the template selected by conv,
\* most significant first (VendorBytes[5..0], Worst, Value for raw64/hex64;
\* Reserved, VendorBytes[5..0] for raw56/hex56/raw24/raw32/msec24hour32;
\* VendorBytes[5..0] otherwise); fields outside the template do not change
\* the result, and the call leaves the record as it was.
C8_DecodeFollowsTemplate ==
    /\ [](op = "decode" =>
            /\ rawValue = TemplateBytes(attr, conv)
            /\ \A other \in OutsideVariants(attr, conv) :
                  decodeVendorBytes(other, conv) = rawValue)
    /\ [][op' = "decode" => attr' = attr]_vars

\* A record whose Worst and Value differ was decoded with the 8-byte template.
C8_Witness ==
    /\ op = "decode"
    /\ conv = "raw64"
    /\ attr.Worst # attr.Value
    /\ attr.VendorBytes[5] # attr.VendorBytes[0]
    /\ rawValue[7] = attr.Worst
    /\ rawValue[8] = attr.Value

ConvsWithOwnTemplate ==
    {"raw64", "hex64", "raw56", "hex56", "raw24/raw32", "msec24hour32"}

\* The number held by three consecutive bytes of a uint64, from byte k on.
Limb(r, k) == r[k] * 65536 + r[k + 1] * 256 + r[k + 2]

\* C9: for every conv outside raw64, hex64, raw56, hex56, raw24/raw32 and
\* msec24hour32 (the empty string and unknown names included) the decoder
\* returns a value, below 2^48 and equal to the sum of VendorBytes[i]*256^i;
\* for the Reserved-prefixed template the value is below 2^56; for the 8-byte
\* template the shifts lose no bit.
C9_DecodeRanges ==
    op = "decode" =>
        LET v == attr.VendorBytes IN
        /\ Len(rawValue) = 8
        /\ \A k \in 1..8 : rawValue[k] \in 0..255
        /\ conv \notin ConvsWithOwnTemplate =>
              /\ rawValue[1] = 0 /\ rawValue[2] = 0
              /\ Limb(rawValue, 3) = v[5] * 65536 + v[4] * 256 + v[3]
              /\ Limb(rawValue, 6) = v[2] * 65536 + v[1] * 256 + v[0]
        /\ conv \in {"raw56", "hex56", "raw24/raw32", "msec24hour32"} =>
              /\ rawValue[1] = 0
              /\ rawValue[2] = attr.Reserved
        /\ conv \in {"raw64", "hex64"} =>
              /\ rawValue[1] = v[5]
              /\ Limb(rawValue, 2) = v[4] * 65536 + v[3] * 256 + v[2]
              /\ Limb(rawValue, 5) = v[1] * 65536 + v[0] * 256 + attr.Worst
              /\ rawValue[8] = attr.Value

\* An unknown conv decoded a record with a non-zero Reserved, Worst and Value
\* and a full top vendor byte.
C9_Witness ==
    /\ op = "decode"
    /\ conv = "bogus"
    /\ attr.VendorBytes[5] = 255
    /\ attr.Reserved # 0 /\ attr.Worst # 0 /\ attr.Value # 0
    /\ rawValue[3] = 255

RECURSIVE TrimRight(_)
TrimRight(txt) ==
    IF txt # <<>> /\ txt[Len(txt)] = " "
    THEN TrimRight(SubSeq(txt, 1, Len(txt) - 1))
    ELSE txt

DecimalDigits == {"0", "1", "2", "3", "4", "5", "6", "7", "8", "9"}

DigitValue(ch) == CHOOSE d \in 0..9 : DigitChar(d) = ch

\* The three bytes of a number below 2^24, most significant first.
Bytes3(n) == <<n \div 65536, (n \div 256) % 256, n % 256>>

\* r * 10 + d on a uint64, in limbs of 24, 24 and 16 bits from the bottom.
TimesTenPlus(r, d) ==
    LET lo == Limb(r, 6) * 10 + d
        mid == Limb(r, 3) * 10 + lo \div 16777216
        top == (r[1] * 256 + r[2]) * 10 + mid \div 16777216
    IN  <<(top \div 256) % 256, top % 256>>
            \o Bytes3(mid % 16777216) \o Bytes3(lo % 16777216)

\* The uint64 a string of decimal digits denotes.
RECURSIVE ParseDecimal(_)
ParseDecimal(txt) ==
    IF txt = <<>> THEN U64Zero
    ELSE TimesTenPlus(ParseDecimal(SubSeq(txt, 1, Len(txt) - 1)),
                      DigitValue(txt[Len(txt)]))

\* C10: under conversion rule raw48 the raw value printed for a record is the
\* plain decimal of the 48-bit little-endian value of its VendorBytes
\* (VendorBytes[0] least significant), whatever its Value, Worst and Reserved
\* bytes are; VendorBytes [1,0,0,0,0,0] prints as 1.
C10_Raw48PrintsDecimal ==
    (op = "print" /\ conv = "raw48") =>
        LET txt == TrimRight(line.RawValue)
            v == attr.VendorBytes
        IN  /\ txt # <<>>
            /\ \A k \in 1..Len(txt) : txt[k] \in DecimalDigits
            /\ (Len(txt) > 1 => txt[1] # "0")
            /\ ParseDecimal(txt) =
                   <<0, 0, v[5], v[4], v[3], v[2], v[1], v[0]>>
            /\ (v = [i \in 0..5 |-> IF i = 0 THEN 1 ELSE 0] => txt = <<"1">>)

\* The record with VendorBytes [1,0,0,0,0,0] and non-zero Value, Worst and
\* Reserved was printed under raw48, as 1.
C10_Witness ==
    /\ op = "print"
    /\ conv = "raw48"
    /\ attr.VendorBytes = [i \in 0..5 |-> IF i = 0 THEN 1 ELSE 0]
    /\ attr.Value # 0 /\ attr.Worst # 0 /\ attr.Reserved # 0
    /\ TrimRight(line.RawValue) = <<"1">>

\* A record with every vendor byte at 255 was printed under raw48 as 2^48 - 1.
C10_WitnessMax ==
    /\ op = "print"
    /\ conv = "raw48"
    /\ \A i \in 0..5 : attr.VendorBytes[i] = 255
    /\ line.RawValue = <<"2", "8", "1", "4", "7", "4", "9", "7", "6", "7",
                         "1", "0", "6", "5", "5">>

(***************************************************************************)
(* Claims about the report.                                                *)
(***************************************************************************)
\* Number of records that precede the first record with Id 0 (all of them
\* when no record has Id 0).
PopulatedPrefix(attrs) ==
    LET zeros == {k \in 1..Len(attrs) : attrs[k].Id = 0} IN
    IF zeros = {} THEN Len(attrs) ELSE Least(zeros) - 1

\* Line k of the report shows the fixed columns of record k of the page.
LineShowsRecord(k) ==
    /\ report[k].Id = smart[k].Id
    /\ report[k].Flags = smart[k].Flags
    /\ report[k].Value = smart[k].Value
    /\ report[k].Worst = smart[k].Worst
    /\ report[k].Reserved = smart[k].Reserved

\* C11: the report has exactly one line per record that precedes the first
\* record with Id 0, in table order (30 lines when no record has Id 0, none
\* when the first record has Id 0); records after the first zero Id are never
\* rendered, even when their Id is not zero.
C11_OneLinePerPopulatedRecord ==
    /\ Len(report) <= PopulatedPrefix(smart)
    /\ \A k \in 1..Len(report) : LineShowsRecord(k) /\ report[k].Id # 0
    /\ rpc = "done" => Len(report) = PopulatedPrefix(smart)
    /\ (rpc = "done" /\ renderer # "none" /\ smart[1].Id = 0) => report = <<>>
    /\ (rpc = "done" /\ renderer # "none" /\ \A k \in 1..NumAttrs : smart[k].Id # 0)
           => Len(report) = 30

\* A page with stale non-zero records after its first zero Id was rendered
\* to its end, and the report stops short of them.
C11_Witness ==
    /\ rpc = "done"
    /\ renderer = "printSMART"
    /\ Len(report) \in 1..28
    /\ smart[Len(report) + 1].Id = 0
    /\ \E k \in (Len(report) + 2)..NumAttrs : smart[k].Id # 0

\* The text is a decimal numeral without sign or leading zero.
IsDecimalText(txt) ==
    /\ txt # <<>>
    /\ \A k \in 1..Len(txt) : txt[k] \in DecimalDigits
    /\ (Len(txt) > 1 => txt[1] # "0")

\* Record k of the page has no preset in the resolved model.
HasNoPreset(k) == Itoa(smart[k].Id) \notin DOMAIN thisDrive

\* C12 (as claimed): for a populated record whose id has no preset, the
\* report still emits its line, with an empty name and with the raw value
\* decoded by the default template: the 48-bit value of the vendor bytes.
C12_NoPresetDecodedByDefault ==
    renderer \in {"printSMART", "ReadSMART"} =>
        /\ (rpc = "done" => Len(report) = PopulatedPrefix(smart))
        /\ \A k \in 1..Len(report) :
              HasNoPreset(k) =>
                  LET txt == TrimRight(report[k].RawValue)
                      v == smart[k].VendorBytes
                  IN  /\ report[k].Name = ""
                      /\ IsDecimalText(txt)
                      /\ ParseDecimal(txt) = <<0, 0, v[5], v[4], v[3], v[2], v[1], v[0]>>

\* C12 (amended): for a populated record whose id has no preset, printSMART
\* and the loop of the early ReadSMART still emit its line, with an empty
\* name and an empty rule; the record is not decoded and the raw value
\* printed is 0, whatever the vendor bytes are.
C12_NoPresetPrintsZero ==
    renderer \in {"printSMART", "ReadSMART"} =>
        /\ (rpc = "done" => Len(report) = PopulatedPrefix(smart))
        /\ \A k \in 1..Len(report) :
              HasNoPreset(k) =>
                  /\ LineShowsRecord(k)
                  /\ report[k].Name = ""
                  /\ report[k].Conv = ""
                  /\ TrimRight(report[k].RawValue) = <<"0">>

\* printSMART printed a record without preset whose vendor bytes are all 255,
\* as 0.
C12_Witness ==
    /\ renderer = "printSMART"
    /\ thisDrive # EmptyMap
    /\ \E k \in 1..Len(report) :
          /\ HasNoPreset(k)
          /\ \A i \in 0..5 : smart[k].VendorBytes[i] = 255
          /\ TrimRight(report[k].RawValue) = <<"0">>

\* Bit b of a 16-bit flags word.
FlagBit(flags, b) == (flags \div (2 ^ b)) % 2 = 1

\* C13: in every line that has the columns, the type is Pre-fail exactly when
\* bit 0 of Flags is set (Old_age otherwise) and the updated state is Always
\* exactly when bit 1 is set (Offline otherwise); each depends on its own bit
\* only, not on the other column's bit nor on any other flag bit.
C13_FlagBitsClassify ==
    renderer \in {"printSMART", "printSMARTPage"} =>
        /\ \A k \in 1..Len(report) :
              /\ report[k].AttrType =
                     (IF FlagBit(smart[k].Flags, 0) THEN "Pre-fail" ELSE "Old_age")
              /\ report[k].AttrUpdated =
                     (IF FlagBit(smart[k].Flags, 1) THEN "Always" ELSE "Offline")
        /\ \A j, k \in 1..Len(report) :
              /\ (FlagBit(smart[j].Flags, 0) = FlagBit(smart[k].Flags, 0))
                     => report[j].AttrType = report[k].AttrType
              /\ (FlagBit(smart[j].Flags, 1) = FlagBit(smart[k].Flags, 1))
                     => report[j].AttrUpdated = report[k].AttrUpdated

\* printSMART printed a Pre-fail/Offline line and an Old_age/Always line, the
\* second for a record whose other flag bits are all set.
C13_Witness ==
    /\ renderer = "printSMART"
    /\ \E j, k \in 1..Len(report) :
          /\ smart[j].Flags = 1
          /\ report[j].AttrType = "Pre-fail" /\ report[j].AttrUpdated = "Offline"
          /\ smart[k].Flags = 65534
          /\ report[k].AttrType = "Old_age" /\ report[k].AttrUpdated = "Always"

\* C14: for every rule string outside the formatter's table (the empty rule
\* of a record without preset included) and every decoded value, the
\* formatted raw value is exactly "?", and the report goes on with the
\* remaining records.
C14_UnknownRuleFormatsAsQuestionMark ==
    renderer = "printSMARTPage" =>
        /\ \A k \in 1..Len(report) :
              report[k].Conv \notin FormatterTable => report[k].RawValue = <<"?">>
        /\ \A k \in 1..Len(report) :
              report[k].RawValue = <<"?">> => report[k].Conv \notin FormatterTable
        /\ (rpc = "done" => Len(report) = PopulatedPrefix(smart))

\* printSMARTPage printed "?" for a record with non-zero vendor bytes under
\* an unknown rule, and a number for a later record.
C14_Witness ==
    /\ renderer = "printSMARTPage"
    /\ rpc = "done"
    /\ \E j, k \in 1..Len(report) :
          /\ j < k
          /\ report[j].Conv = "bogus"
          /\ smart[j].VendorBytes[0] # 0
          /\ report[j].RawValue = <<"?">>
          /\ report[k].Conv = "raw48"
          /\ IsDecimalText(report[k].RawValue)

\* The raw bytes are those of the trivial temperature packing: byte 0 within
\* 0..0x7f, bytes 1 to 5 zero.
TrivialTemperature(v) == v[0] <= 127 /\ \A i \in 1..5 : v[i] = 0

\* C15: under rule tempminmax a raw value whose byte 0 is within 0..0x7f and
\* whose bytes 1 to 5 are zero is rendered as the decimal of byte 0 alone,
\* without bracket or byte dump; raw [25,0,0,0,0,0] renders as 25.
C15_TrivialTempPrintsByteZero ==
    \A k \in 1..Len(report) :
        (report[k].Conv = "tempminmax" /\ TrivialTemperature(smart[k].VendorBytes)) =>
            LET txt == TrimRight(report[k].RawValue)
                v == smart[k].VendorBytes
            IN  /\ IsDecimalText(txt)
                /\ ParseDecimal(txt) = <<0, 0, 0, 0, 0, 0, 0, v[0]>>
                /\ (v[0] = 25 => txt = <<"2", "5">>)

\* The loop of the early ReadSMART printed raw [25,0,0,0,0,0] under
\* tempminmax as 25, for a record whose Value, Worst and Reserved are not 0.
C15_Witness ==
    /\ renderer = "ReadSMART"
    /\ \E k \in 1..Len(report) :
          /\ report[k].Conv = "tempminmax"
          /\ smart[k].VendorBytes = VB(25, 0, 0, 0, 0, 0)
          /\ smart[k].Reserved # 0 /\ smart[k].Value # 0
          /\ TrimRight(report[k].RawValue) = <<"2", "5">>

(***************************************************************************)
(* Claim about the NVMe structures.                                        *)
(***************************************************************************)
\* Sum of the sizes of the fields of a struct, from field k on.
RECURSIVE SumOfFieldSizes(_, _, _)
SumOfFieldSizes(fields, k, a) ==
    IF k > Len(fields) THEN 0
    ELSE SizeOfType(fields[k].type, a) * fields[k].count
            + SumOfFieldSizes(fields, k + 1, a)

\* The structs that cross the ioctl boundary.
WireStructs ==
    {"nvmePassthruCommand", "nvmeIdentController", "nvmeIdentNamespace",
     "nvmeSMARTLog"}

\* The size the kernel ABI requires.
WireSize(t) ==
    CASE t = "nvmePassthruCommand" -> 72
      [] t = "nvmeIdentController" -> 4096
      [] t = "nvmeIdentNamespace"  -> 4096
      [] t = "nvmeSMARTLog"        -> 512

\* C16: the layouts of the NVMe wire structures have the sizes the kernel ABI
\* requires: nvmePassthruCommand 72 bytes, nvmeIdentController 4096,
\* nvmeIdentNamespace 4096 and nvmeSMARTLog 512, each the sum of its field
\* sizes in declaration order: every field falls on its natural alignment
\* and no padding is inserted.
C16_WireStructSizes ==
    /\ lay.padding = 0
    /\ (lay.next = 0 /\ lay.type \in WireStructs) =>
          /\ lay.size = WireSize(lay.type)
          /\ lay.size = SumOfFieldSizes(FieldsOf(lay.type), 1, arch)

\* nvmeIdentController, with its 32 nested power state descriptors, was laid
\* out to 4096 bytes.
C16_Witness ==
    /\ lay.type = "nvmeIdentController"
    /\ lay.next = 0
    /\ lay.size = 4096
    /\ lay.align = 4

(***************************************************************************)
(* Claims about the device routines.                                       *)
(***************************************************************************)
\* C17: GetPDList(host), and GetDeviceList(host) before it, query the host
\* they are given: the MFI command they issue carries host_no equal to the
\* host argument, for every host.
C17_ListQueriesGivenHost ==
    routine \in ListRoutines =>
        \A k \in 1..Len(trace) :
            trace[k].step = "MFI" => trace[k].host_no = arg

\* C18: opening the drive database returns a non-nil error whenever the file
\* cannot be opened or cannot be parsed; a nil error comes only with a
\* database decoded from the file.
C18_OpenFailureIsReported ==
    (routine \in OpenerRoutines /\ ret # Running) =>
        /\ dbfile \in {"missing", "malformed"} => ret.err # "nil"
        /\ ret.err = "nil" => ret.db = "decoded"

\* The steps of the trace that are device commands, in the order issued.
IsCommand(e) == e.step \in DeviceCommands

CommandsIssued == SelectSeq(trace, IsCommand)

CommandOrder ==
    <<"INQUIRY", "ATA IDENTIFY", "SMART READ DATA", "SMART READ LOG 0x00",
      "SMART READ LOG 0x01", "SMART READ LOG 0x06">>

\* Step s succeeded at some position before k.
SucceededBefore(s, k) ==
    \E j \in 1..(k - 1) : trace[j].step = s /\ trace[j].ok

\* C19: SATDevice.PrintSMART issues its commands in the order INQUIRY, ATA
\* IDENTIFY, SMART READ DATA, SMART READ LOG 0x00, 0x01, 0x06, with the drive
\* lookup between IDENTIFY and SMART READ DATA; the first command that fails
\* makes the call return that error at once and no later command is issued;
\* the attribute page is rendered only after SMART READ DATA succeeded.
C19_CommandOrder ==
    routine \in PrintSMARTRoutines =>
        /\ Len(CommandsIssued) <= Len(CommandOrder)
        /\ \A k \in 1..Len(CommandsIssued) : CommandsIssued[k].step = CommandOrder[k]
        /\ \A k \in 1..Len(trace) :
              /\ (~trace[k].ok) =>
                    /\ k = Len(trace)
                    /\ pc = 0
                    /\ trace[k].step \in DeviceCommands => ret.err = trace[k].step
              /\ trace[k].step = "lookup" =>
                    /\ SucceededBefore("ATA IDENTIFY", k)
                    /\ \A j \in 1..(k - 1) : trace[j].step # "SMART READ DATA"
              /\ trace[k].step = "SMART READ DATA" => SucceededBefore("lookup", k)
              /\ trace[k].step = "render" => SucceededBefore("SMART READ DATA", k)
        /\ ret.err = "nil" =>
              /\ Len(CommandsIssued) = Len(CommandOrder)
              /\ \A k \in 1..Len(trace) : trace[k].ok

\* PrintSMART returned the error of a failed SMART READ LOG 0x01 after four
\* commands and the page, and the self-test log was not read.
C19_Witness ==
    /\ routine = "PrintSMART(db)"
    /\ ret.err = "SMART READ LOG 0x01"
    /\ Len(CommandsIssued) = 5
    /\ \E k \in 1..Len(trace) : trace[k].step = "render"
    /\ \A k \in 1..Len(trace) : trace[k].step # "SMART READ LOG 0x06"

\* The device was opened by the routine.
Opened == \E k \in 1..Len(trace) : trace[k].step = "open" /\ trace[k].ok

\* C20: in ReadSMART the device, once opened, is closed exactly once before
\* the function is left, on every path (success, failed INQUIRY, IDENTIFY,
\* database load, SMART READ DATA or log read); when the open fails no close
\* is made.
C20_ClosedExactlyOnce ==
    routine \in ReadSMARTRoutines =>
        /\ ret = Running => closes = 0
        /\ (ret # Running /\ Opened) => (closes = 1 /\ fd = "closed")
        /\ (ret # Running /\ ~Opened) => (closes = 0 /\ fd = "none")

\* ReadSMART of sat.go returned the error of a failed SMART READ DATA and the
\* device was closed once.
C20_Witness ==
    /\ routine = "ReadSMART sat.go"
    /\ ret.err = "SMART READ DATA"
    /\ Opened
    /\ closes = 1
    /\ fd = "closed"

(***************************************************************************)
(* Claims about descriptors.                                               *)
(***************************************************************************)
\* C21: OpenSCSIAutodetect leaves no open descriptor behind on failure: when
\* it returns a non-nil error (open or INQUIRY failed) no descriptor opened by
\* the call remains open, and when it returns nil the returned Device wraps
\* the open descriptor.
C21_NoDescriptorLeftOnFailure ==
    (routine \in AutodetectRoutines /\ ret # Running) =>
        /\ ret.err # "nil" => fd # "open"
        /\ ret.err = "nil" => fd = "open"

\* C22: CreateMegasasIoctl returns a nil error only with a handle whose
\* descriptor the call opened on the megaraid ioctl node; a caller that checks
\* err == nil never sends an ioctl to, nor closes, a descriptor the call did
\* not open (descriptor 0 in particular).
C22_NilErrorMeansOwnDescriptor ==
    routine \in ScanRoutines =>
        /\ ret.err = "nil" => fd \in {"open", "closed"}
        /\ \A k \in 1..Len(trace) :
              trace[k].step \in {"ioctl", "Close"} => fd \in {"open", "closed"}
        /\ fd # "stdin closed"

(***************************************************************************)
(* Claims about the helper functions.                                      *)
(***************************************************************************)
\* The buffer length at hand passes the check of readLogPage.
Accepted == input.bufLen >= 4 /\ input.bufLen <= 16384 /\ input.bufLen % 4 = 0

\* C23: readLogPage rejects a buffer shorter than 4, longer than 0x4000 or not
\* a multiple of 4 with an error and without an ioctl; for every accepted
\* length data_len is the buffer length and cdw10 holds the log id in bits
\* 0..7 and the dword count minus one from bit 16 up, the two never
\* overlapping.
C23_LogPageCommand ==
    (fn = "readLogPage" /\ hpc = "done") =>
        /\ ~Accepted => (output.err = "Invalid buffer size" /\ output.ioctls = 0)
        /\ Accepted =>
              /\ output.ioctls = 1
              /\ output.data_len = input.bufLen
              /\ output.cdw10 % 256 = input.logID
              /\ (output.cdw10 \div 256) % 256 = 0
              /\ output.cdw10 \div 65536 = (input.bufLen \div 4) - 1
              /\ output.cdw10 = input.logID + ((input.bufLen \div 4) - 1) * 65536

\* The largest accepted buffer, 0x4000 bytes, was sent with log id 0xff:
\* cdw10 = 0x0fff00ff.
C23_Witness ==
    /\ fn = "readLogPage"
    /\ hpc = "done"
    /\ input = [logID |-> 255, bufLen |-> 16384]
    /\ output.cdw10 = 268370175

\* The bytes of a slice as a bag.
BagOfBytes(s) == [b \in {s[i] : i \in 1..Len(s)} |-> Cardinality({i \in 1..Len(s) : s[i] = b})]

\* C24: swapBytes exchanges the bytes of every pair (2k, 2k+1) in place: for
\* a slice of even length the length and the multiset of bytes are kept and a
\* second application restores the content; it completes without an
\* out-of-range access for every input length.
C24_SwapBytesTotalInvolution ==
    (fn = "swapBytes" /\ hpc = "done") =>
        /\ ~output.panic
        /\ Len(input) % 2 = 0 =>
              /\ Len(output.s) = Len(input)
              /\ \A k \in 1..(Len(input) \div 2) :
                    /\ output.s[2 * k - 1] = input[2 * k]
                    /\ output.s[2 * k] = input[2 * k - 1]
              /\ BagOfBytes(output.s) = BagOfBytes(input)
              /\ swapBytes(output.s).s = input

\* C25: on every path that reaches the drive lookup, the bytes handed to
\* lookupDrive are the IDENTIFY model number byte-pair-swapped exactly once:
\* one swapBytes call was made on ModelNumber before the lookup, never none
\* and never two.
C25_ModelNumberSwappedOnce ==
    fn \in IdentifyPaths =>
        /\ hpc = "lookup" => (swaps = 1 /\ buf = swapBytes(input).s)
        /\ (hpc = "done" /\ output.looked) =>
              (swaps = 1 /\ output.subject = swapBytes(input).s)

\* ReadSMART looked up "AB A" for the wire bytes "BAA ".
C25_Witness ==
    /\ fn = "ReadSMART sat.go"
    /\ hpc = "done"
    /\ output.looked
    /\ input = <<66, 65, 65, 32>>
    /\ output.subject = <<65, 66, 32, 65>>

\* a < b on uints written as limb pairs.
Less(a, b) == a[1] < b[1] \/ (a[1] = b[1] /\ a[2] < b[2])

\* 2^k as a limb pair, for k up to 32.
Pow2(k) == IF k < 16 THEN <<0, 2^k>> ELSE <<2^(k - 16), 0>>

\* floor(log2(x)) for x >= 1: the k with 2^k <= x < 2^(k+1).
FloorLog2(x) == CHOOSE k \in 0..31 : ~Less(x, Pow2(k)) /\ Less(x, Pow2(k + 1))

\* C26: for every x with 1 <= x < 2^32 the bitLen-based log2b, the math/bits
\* log2b and utils.Log2b return floor(log2(x)), and bitLen(x) is the number
\* of bits needed to write x (0 for x = 0).
C26_Log2bIsFloorLog2 ==
    (fn = "log2b" /\ hpc = "done") =>
        /\ input = <<0, 0>> => output.bitLen = 0
        /\ input # <<0, 0>> =>
              /\ output.bitLen = FloorLog2(input) + 1
              /\ output.log2b = FloorLog2(input)
              /\ output.log2bBits = FloorLog2(input)
              /\ output.Log2b = FloorLog2(input)

\* log2b(0x8000ffff) = 31 and bitLen(0x8000ffff) = 32 were computed.
C26_Witness ==
    /\ fn = "log2b"
    /\ hpc = "done"
    /\ input = <<32768, 65535>>
    /\ output.log2b = 31
    /\ output.bitLen = 32

(***************************************************************************)
(* Claim about the two resolver revisions.                                 *)
(***************************************************************************)
\* The scan, the merge iteration and its write test of revision v.
ScanOf(v, ident) ==
    IF v = "intoDefault" THEN ScanIntoDefault(1, ZeroModel, ident)
    ELSE ScanIntoResult(1, ZeroModel, ident)

MergeIterOf(v, h, src, tgt, id) ==
    IF v = "intoDefault" THEN MergeIterIntoDefault(h, src, tgt, id)
    ELSE MergeIterIntoResult(h, src, tgt, id)

MergeWritesOf(v, h, src, tgt, id) ==
    IF v = "intoDefault" THEN TRUE
    ELSE LET m == PresetsOf(h, tgt)
         IN  IF id \in DOMAIN m THEN m[id].Name = "" ELSE TRUE

\* What revision v yields for ident on the database as loaded.
RECURSIVE RunMergeOf(_, _, _, _)
RunMergeOf(v, h, s, todo) ==
    IF todo = {}
    THEN [kind |-> "ret", Family |-> s.model.Family,
          Presets |-> PresetsOf(h, s.model.Presets)]
    ELSE LET id == CHOOSE x \in todo : TRUE IN
         IF MergeWritesOf(v, h, s.src, s.tgt, id) /\ s.tgt = NilMap
         THEN [kind |-> "panic", Family |-> "", Presets |-> EmptyMap]
         ELSE RunMergeOf(v, [h EXCEPT ![s.tgt] = MergeIterOf(v, h, s.src, s.tgt, id)],
                         s, todo \ {id})

LookupOf(v, ident) ==
    LET s == ScanOf(v, ident) IN RunMergeOf(v, loaded, s, DOMAIN PresetsOf(loaded, s.src))

OtherImpl == IF impl = "intoDefault" THEN "intoResult" ELSE "intoDefault"

\* C27: the two resolver revisions agree: on every database in which a
\* DEFAULT entry precedes the first matching entry, the first lookup of an
\* ident returns, in the revision that merges into DEFAULT and in the one
\* that merges into the result, a model with the same family and the same
\* preset map.
C27_RevisionsAgree ==
    \A t \in Goroutines :
        LET e == FirstMatchAt(call[t].ident) IN
        (ncalls = 1 /\ Ended(t) /\ e # 0 /\ DefaultsBefore(e) # {}) =>
            LET o == LookupOf(OtherImpl, call[t].ident) IN
            /\ call[t].pc = "ret"
            /\ o.kind = "ret"
            /\ call[t].result.Family = o.Family
            /\ call[t].result.Presets = o.Presets

====
